---- MODULE Spec2Model ----
(***************************************************************************)
(* Model of Python/tools/orchestration_tools.py: the multi-agent           *)
(* orchestration workbench (agent registry, knowledge atomspace, workflow  *)
(* task queue, workflow history) guarded by one threading.RLock.           *)
(*                                                                         *)
(* Conventions                                                             *)
(*  - time.time()*1000 and datetime.now() are read from the clock `now`    *)
(*    (milliseconds); Tick advances it, and any number of operations may   *)
(*    run between two ticks.                                               *)
(*  - f"task_{ms}" is injective in ms: a task_id is modelled by ms, and    *)
(*    the empty string by NoId.  f"{type}_{ms}" is modelled by <<type,ms>>.*)
(*  - a Python object's identity is modelled by `uid`; for a task it is    *)
(*    the creation rank, since the queue only grows between clears.        *)
(*  - Python None for a timestamp is modelled by None (-1).                *)
(***************************************************************************)
EXTENDS Integers, Sequences, FiniteSets, TLC

VARIABLES agents, knowledge_base, task_queue, workflow_history, now, last,
          lock, pc, req, found, ret, claimed_by, returned

vars == <<agents, knowledge_base, task_queue, workflow_history, now, last,
          lock, pc, req, found, ret, claimed_by, returned>>

stores == <<agents, knowledge_base, task_queue, workflow_history>>

threadVars == <<lock, pc, req, found, ret, claimed_by>>

-----------------------------------------------------------------------------
(* Bounds of the model and input domains *)

MaxTime == 1

MaxTasks == 2

MaxHistory == 2

MaxAtoms == 2

MaxAccess == 2

MaxConcTasks == 2

MaxQueue == 3

None == -1

NoId == -1

AgentIds == {"a1", "a2"}

AgentTypes == {"cursor"}

CapInputs == {""}

TaskTypes == {"create_actor"}

KnowledgeTypes == {"actor", "blueprint"}

Payloads == {"", "{bad"}

AssignArgs == {"", "a1"}

SourceArgs == {"", "a1"}

Limits == {0, 1, 2, 10}

Priorities == {0, 1}

TaskIdArgs == {NoId} \cup (0..MaxTime)

Threads == {"t1", "t2"}

-----------------------------------------------------------------------------
(* Pure helpers *)

\* Mutant of JsonValid: every payload is accepted.
JsonValidAll(s) == TRUE

\* json.loads on the inputs of Payloads: "{bad" raises JSONDecodeError.
JsonValid(s) == s \in {"[1]", "{}"}

\* `json.loads(x) if x else {}`: the empty string yields the empty object.
JsonLoads(s) == IF s = "" THEN "{}" ELSE s

\* Mutant of ParseCaps: the names are not stripped.
ParseCapsNoStrip(s) ==
    IF s = "" THEN <<>> ELSE IF s = "bp, ui" THEN <<"bp", " ui">> ELSE <<s>>

\* [c.strip() for c in capabilities.split(",")] if capabilities else []
ParseCaps(s) == IF s = "" THEN <<>> ELSE IF s = "bp, ui" THEN <<"bp", "ui">> ELSE <<s>>

RECURSIVE InsertDescUnstable(_, _)
\* Mutant of InsertDesc: the new task goes before the tasks of equal priority.
InsertDescUnstable(s, t) ==
    IF s = <<>> THEN <<t>>
    ELSE IF Head(s).priority > t.priority
         THEN <<Head(s)>> \o InsertDescUnstable(Tail(s), t)
         ELSE <<t>> \o s

RECURSIVE InsertDesc(_, _)
\* One step of the stable sort: t goes after every element whose key is >= its own.
InsertDesc(s, t) ==
    IF s = <<>> THEN <<t>>
    ELSE IF Head(s).priority >= t.priority
         THEN <<Head(s)>> \o InsertDesc(Tail(s), t)
         ELSE <<t>> \o s

RECURSIVE SortByPriorityDesc(_)
\* list.sort(key=lambda t: t.priority, reverse=True): stable, descending.
SortByPriorityDesc(s) ==
    IF s = <<>> THEN <<>>
    ELSE InsertDesc(SortByPriorityDesc(SubSeq(s, 1, Len(s) - 1)), s[Len(s)])

MinOf(S) == CHOOSE i \in S : \A j \in S : i <= j

\* Mutant of FindSpecific: a task created for an agent is not taken.
FindSpecificUnassigned(queue, task_id) ==
    LET S == {i \in 1..Len(queue) : /\ queue[i].task_id = task_id
                                    /\ queue[i].status = "pending"
                                    /\ queue[i].assigned_agent = ""}
    IN IF S = {} THEN 0 ELSE MinOf(S)

\* Mutant of FindSpecific: the status test is dropped.
FindSpecificAnyStatus(queue, task_id) ==
    LET S == {i \in 1..Len(queue) : queue[i].task_id = task_id}
    IN IF S = {} THEN 0 ELSE MinOf(S)

\* Mutant of FindAuto: the last task that passes the test is taken.
FindAutoLast(queue) ==
    LET S == {i \in 1..Len(queue) :
                queue[i].status = "pending" /\ queue[i].assigned_agent = ""}
    IN IF S = {} THEN 0 ELSE CHOOSE i \in S : \A j \in S : j <= i

\* Mutant of FindAuto: the test that the task has no assignee is dropped.
FindAutoAnyAssignee(queue) ==
    LET S == {i \in 1..Len(queue) : queue[i].status = "pending"}
    IN IF S = {} THEN 0 ELSE MinOf(S)

\* First index of the queue whose task satisfies the loop's test, 0 for None.
FindSpecific(queue, task_id) ==
    LET S == {i \in 1..Len(queue) :
                queue[i].task_id = task_id /\ queue[i].status = "pending"}
    IN IF S = {} THEN 0 ELSE MinOf(S)

FindAuto(queue) ==
    LET S == {i \in 1..Len(queue) :
                queue[i].status = "pending" /\ queue[i].assigned_agent = ""}
    IN IF S = {} THEN 0 ELSE MinOf(S)

ClaimFind(queue, task_id) ==
    IF task_id # NoId THEN FindSpecific(queue, task_id) ELSE FindAuto(queue)

\* Mutant of CompleteFind: the last task with the task_id is taken, not the first.
CompleteFindLast(queue, task_id) ==
    LET S == {i \in 1..Len(queue) : queue[i].task_id = task_id}
    IN IF S = {} THEN 0 ELSE CHOOSE i \in S : \A j \in S : j <= i

\* Mutant of CompleteFind: the task_id is not compared.
CompleteFindAny(queue, task_id) == IF queue = <<>> THEN 0 ELSE 1

\* Mutant of CompleteFind: a completed or failed task is not found.
CompleteFindOpen(queue, task_id) ==
    LET S == {i \in 1..Len(queue) :
                queue[i].task_id = task_id /\ queue[i].status \in {"pending", "claimed"}}
    IN IF S = {} THEN 0 ELSE MinOf(S)

\* for t in task_queue: if t.task_id == task_id: task = t; break
CompleteFind(queue, task_id) ==
    LET S == {i \in 1..Len(queue) : queue[i].task_id = task_id}
    IN IF S = {} THEN 0 ELSE MinOf(S)

NewAgent(agent_id, agent_type, cap_list, t) ==
    [agent_id |-> agent_id, agent_type |-> agent_type, capabilities |-> cap_list,
     created_at |-> t, last_active |-> t, status |-> "active", task_count |-> 0]

\* Mutant of NewTask: a task created with an assignee starts as claimed by it.
NewTaskAssignedClaimed(uid, task_id, task_type, params, assigned_agent, priority, t) ==
    [uid |-> uid, task_id |-> task_id, task_type |-> task_type, params |-> params,
     assigned_agent |-> assigned_agent, priority |-> priority,
     status |-> IF assigned_agent = "" THEN "pending" ELSE "claimed",
     created_at |-> t, started_at |-> IF assigned_agent = "" THEN None ELSE t,
     completed_at |-> None, result |-> "None"]

NewTask(uid, task_id, task_type, params, assigned_agent, priority, t) ==
    [uid |-> uid, task_id |-> task_id, task_type |-> task_type, params |-> params,
     assigned_agent |-> assigned_agent, priority |-> priority, status |-> "pending",
     created_at |-> t, started_at |-> None, completed_at |-> None, result |-> "None"]

ClaimedTask(task, agent_id, t) ==
    [task EXCEPT !.assigned_agent = agent_id, !.status = "claimed", !.started_at = t]

\* Mutant of CompletedTask: the status is completed whatever success is.
CompletedTaskIgnoreSuccess(task, result_data, success, t) ==
    [task EXCEPT !.status = "completed", !.completed_at = t, !.result = result_data]

CompletedTask(task, result_data, success, t) ==
    [task EXCEPT !.status = IF success THEN "completed" ELSE "failed",
                 !.completed_at = t, !.result = result_data]

HistoryRecord(task, task_id) ==
    [task_id |-> task_id, task_type |-> task.task_type, agent |-> task.assigned_agent,
     status |-> task.status, completed_at |-> task.completed_at, result |-> task.result]

\* A call and what it returned: the tool, the agent_id and task_id it was given,
\* status success/error (ok), the error kind, and the payload (uid: the task
\* created, claimed or completed; task_status: the status complete reports;
\* atoms: the atom_ids a query returns).
Return(op, agent_id, task_id, ok, error, uid) ==
    [op |-> op, agent_id |-> agent_id, task_id |-> task_id, ok |-> ok,
     error |-> error, uid |-> uid, task_status |-> "", atoms |-> <<>>]

NoReturn == Return("none", "", NoId, TRUE, "", 0)

\* The clock's step, in a specification that records every step in `last`.
TickReturn == Return("tick", "", NoId, TRUE, "", 0)

\* A thread that is in no call.
NoRequest == [agent_id |-> "", task_id |-> NoId]

-----------------------------------------------------------------------------
(* Initial state: the module-level _orchestration_state *)

Init ==
    /\ agents = <<>>
    /\ knowledge_base = <<>>
    /\ task_queue = <<>>
    /\ workflow_history = <<>>
    /\ now = 0
    /\ last = NoReturn
    /\ lock = [owner |-> "", count |-> 0]
    /\ pc = [t \in Threads |-> "idle"]
    /\ req = [t \in Threads |-> NoRequest]
    /\ found = [t \in Threads |-> 0]
    /\ ret = [t \in Threads |-> NoReturn]
    /\ claimed_by = <<>>
    /\ returned = <<>>

-----------------------------------------------------------------------------
(* Operations: each is the whole body of a tool, run under `with lock`.     *)
(* XOutcome gives the stores after the call and the value returned.         *)

Tick ==
    /\ now' = now + 1
    /\ UNCHANGED <<stores, threadVars>>

\* Mutant of RegisterOutcome: a registration of a known agent_id builds a new session.
RegisterOutcomeOverwrite(ags, agent_id, agent_type, capabilities, t) ==
    [agents |-> [a \in DOMAIN ags \cup {agent_id} |->
                   IF a = agent_id
                   THEN NewAgent(agent_id, agent_type, ParseCaps(capabilities), t)
                   ELSE ags[a]],
     ret |-> Return("register", agent_id, NoId, TRUE, "", 0)]

RegisterOutcome(ags, agent_id, agent_type, capabilities, t) ==
    IF agent_id \in DOMAIN ags
    THEN [agents |-> [ags EXCEPT ![agent_id].last_active = t,
                                 ![agent_id].status = "active"],
          ret |-> Return("register", agent_id, NoId, TRUE, "", 0)]
    ELSE [agents |-> [a \in DOMAIN ags \cup {agent_id} |->
                        IF a = agent_id
                        THEN NewAgent(agent_id, agent_type, ParseCaps(capabilities), t)
                        ELSE ags[a]],
          ret |-> Return("register", agent_id, NoId, TRUE, "", 0)]

register_agent(agent_id, agent_type, capabilities) ==
    /\ agents' = RegisterOutcome(agents, agent_id, agent_type, capabilities, now).agents
    /\ UNCHANGED <<knowledge_base, task_queue, workflow_history, now, threadVars>>

\* Mutant of DeregisterOutcome: the record is deleted from the registry.
DeregisterOutcomeDelete(ags, agent_id) ==
    IF agent_id \notin DOMAIN ags
    THEN [agents |-> ags,
          ret |-> Return("deregister", agent_id, NoId, FALSE, "NotFound", 0)]
    ELSE [agents |-> [b \in DOMAIN ags \ {agent_id} |-> ags[b]],
          ret |-> Return("deregister", agent_id, NoId, TRUE, "", 0)]

DeregisterOutcome(ags, agent_id) ==
    IF agent_id \notin DOMAIN ags
    THEN [agents |-> ags,
          ret |-> Return("deregister", agent_id, NoId, FALSE, "NotFound", 0)]
    ELSE [agents |-> [ags EXCEPT ![agent_id].status = "inactive"],
          ret |-> Return("deregister", agent_id, NoId, TRUE, "", 0)]

deregister_agent(agent_id) ==
    /\ agents' = DeregisterOutcome(agents, agent_id).agents
    /\ UNCHANGED <<knowledge_base, task_queue, workflow_history, now, threadVars>>

CreateQueue(queue, task_type, task_params, assigned_agent, priority, t) ==
    SortByPriorityDesc(Append(queue,
        NewTask(Len(queue) + 1, t, task_type, JsonLoads(task_params),
                assigned_agent, priority, t)))

CreateOutcome(queue, task_type, task_params, assigned_agent, priority, t) ==
    IF task_params # "" /\ ~JsonValid(task_params)
    THEN [task_queue |-> queue,
          ret |-> Return("create", assigned_agent, NoId, FALSE, "InvalidJSON", 0)]
    ELSE [task_queue |-> CreateQueue(queue, task_type, task_params,
                                     assigned_agent, priority, t),
          ret |-> Return("create", assigned_agent, t, TRUE, "", Len(queue) + 1)]

create_workflow_task(task_type, task_params, assigned_agent, priority) ==
    /\ task_queue' = CreateOutcome(task_queue, task_type, task_params,
                                   assigned_agent, priority, now).task_queue
    /\ UNCHANGED <<agents, knowledge_base, workflow_history, now, threadVars>>

\* Mutant of ClaimQueue: the claimed task is taken out of the queue.
ClaimQueuePop(queue, i, agent_id, t) ==
    SubSeq(queue, 1, i - 1) \o SubSeq(queue, i + 1, Len(queue))

ClaimQueue(queue, i, agent_id, t) ==
    [queue EXCEPT ![i] = ClaimedTask(queue[i], agent_id, t)]

\* Mutant of ClaimAgents: the claim is counted for every agent of the registry.
ClaimAgentsAll(ags, agent_id, t) ==
    [a \in DOMAIN ags |-> [ags[a] EXCEPT !.task_count = @ + 1, !.last_active = t]]

\* Mutant of ClaimAgents: the claim also sets the agent active.
ClaimAgentsActivate(ags, agent_id, t) ==
    [ags EXCEPT ![agent_id].task_count = @ + 1, ![agent_id].last_active = t,
                ![agent_id].status = "active"]

ClaimAgents(ags, agent_id, t) ==
    [ags EXCEPT ![agent_id].task_count = @ + 1, ![agent_id].last_active = t]

\* Mutant of ClaimOutcome: an inactive agent is refused like an unknown one.
ClaimOutcomeActiveOnly(ags, queue, agent_id, task_id, t) ==
    IF agent_id \notin DOMAIN ags \/ ags[agent_id].status # "active"
    THEN [agents |-> ags, task_queue |-> queue,
          ret |-> Return("claim", agent_id, task_id, FALSE, "NotRegistered", 0)]
    ELSE LET i == ClaimFind(queue, task_id) IN
         IF i = 0
         THEN [agents |-> ags, task_queue |-> queue,
               ret |-> Return("claim", agent_id, task_id, FALSE, "NoAvailableTask", 0)]
         ELSE [agents |-> ClaimAgents(ags, agent_id, t),
               task_queue |-> ClaimQueue(queue, i, agent_id, t),
               ret |-> Return("claim", agent_id, task_id, TRUE, "", queue[i].uid)]

ClaimOutcome(ags, queue, agent_id, task_id, t) ==
    IF agent_id \notin DOMAIN ags
    THEN [agents |-> ags, task_queue |-> queue,
          ret |-> Return("claim", agent_id, task_id, FALSE, "NotRegistered", 0)]
    ELSE LET i == ClaimFind(queue, task_id) IN
         IF i = 0
         THEN [agents |-> ags, task_queue |-> queue,
               ret |-> Return("claim", agent_id, task_id, FALSE, "NoAvailableTask", 0)]
         ELSE [agents |-> ClaimAgents(ags, agent_id, t),
               task_queue |-> ClaimQueue(queue, i, agent_id, t),
               ret |-> Return("claim", agent_id, task_id, TRUE, "", queue[i].uid)]

claim_workflow_task(agent_id, task_id) ==
    /\ LET o == ClaimOutcome(agents, task_queue, agent_id, task_id, now) IN
          /\ agents' = o.agents
          /\ task_queue' = o.task_queue
    /\ UNCHANGED <<knowledge_base, workflow_history, now, threadVars>>

\* Mutant of CompleteQueue: the task found is left as it was.
CompleteQueueUntouched(queue, i, result_data, success, t) == queue

CompleteQueue(queue, i, result_data, success, t) ==
    [queue EXCEPT ![i] = CompletedTask(queue[i], result_data, success, t)]

\* Mutant of CompleteOutcome: the record is put at the front of the history.
CompleteOutcomePrepend(queue, history, task_id, result, success, t) ==
    LET i == CompleteFind(queue, task_id) IN
    IF i = 0
    THEN [task_queue |-> queue, workflow_history |-> history,
          ret |-> Return("complete", "", task_id, FALSE, "NotFound", 0)]
    ELSE IF result # "" /\ ~JsonValid(result)
    THEN [task_queue |-> queue, workflow_history |-> history,
          ret |-> Return("complete", "", task_id, FALSE, "InvalidJSON", 0)]
    ELSE LET q == CompleteQueue(queue, i, JsonLoads(result), success, t) IN
         [task_queue |-> q,
          workflow_history |-> <<HistoryRecord(q[i], task_id)>> \o history,
          ret |-> [Return("complete", "", task_id, TRUE, "", queue[i].uid)
                     EXCEPT !.task_status = q[i].status]]

CompleteOutcome(queue, history, task_id, result, success, t) ==
    LET i == CompleteFind(queue, task_id) IN
    IF i = 0
    THEN [task_queue |-> queue, workflow_history |-> history,
          ret |-> Return("complete", "", task_id, FALSE, "NotFound", 0)]
    ELSE IF result # "" /\ ~JsonValid(result)
    THEN [task_queue |-> queue, workflow_history |-> history,
          ret |-> Return("complete", "", task_id, FALSE, "InvalidJSON", 0)]
    ELSE LET q == CompleteQueue(queue, i, JsonLoads(result), success, t) IN
         [task_queue |-> q,
          workflow_history |-> Append(history, HistoryRecord(q[i], task_id)),
          ret |-> [Return("complete", "", task_id, TRUE, "", queue[i].uid)
                     EXCEPT !.task_status = q[i].status]]

complete_workflow_task(task_id, result, success) ==
    /\ LET o == CompleteOutcome(task_queue, workflow_history, task_id, result, success, now) IN
          /\ task_queue' = o.task_queue
          /\ workflow_history' = o.workflow_history
    /\ UNCHANGED <<agents, knowledge_base, now, threadVars>>

NewAtom(uid, atom_id, atom_type, content, source_agent, meta, t) ==
    [uid |-> uid, atom_id |-> atom_id, atom_type |-> atom_type, content |-> content,
     source_agent |-> source_agent, metadata |-> meta, created_at |-> t,
     access_count |-> 0, last_accessed |-> None]

\* knowledge_base[atom_id] = atom: a key the dict holds keeps its place and gets
\* the new value; a new key goes to the end.
DictSet(kb, atom) ==
    LET S == {i \in 1..Len(kb) : kb[i].atom_id = atom.atom_id}
    IN IF S = {} THEN Append(kb, atom)
       ELSE [kb EXCEPT ![MinOf(S)] = atom]

\* The identity of a newly constructed atom: one no atom of the store has.
FreshUid(kb) == MinOf((1..(Len(kb) + 1)) \ {kb[i].uid : i \in 1..Len(kb)})

\* f"{knowledge_type}_{int(time.time() * 1000)}"
AtomId(knowledge_type, t) == <<knowledge_type, t>>

ShareOutcome(kb, knowledge_type, knowledge_content, source_agent, metadata, t) ==
    IF \/ knowledge_content # "" /\ ~JsonValid(knowledge_content)
       \/ metadata # "" /\ ~JsonValid(metadata)
    THEN [knowledge_base |-> kb,
          ret |-> Return("share", source_agent, NoId, FALSE, "InvalidJSON", 0)]
    ELSE [knowledge_base |->
             DictSet(kb, NewAtom(FreshUid(kb), AtomId(knowledge_type, t), knowledge_type,
                                 JsonLoads(knowledge_content), source_agent,
                                 JsonLoads(metadata), t)),
          ret |-> [Return("share", source_agent, NoId, TRUE, "", FreshUid(kb))
                     EXCEPT !.atoms = <<AtomId(knowledge_type, t)>>]]

share_knowledge(knowledge_type, knowledge_content, source_agent, metadata) ==
    /\ knowledge_base' = ShareOutcome(knowledge_base, knowledge_type, knowledge_content,
                                      source_agent, metadata, now).knowledge_base
    /\ UNCHANGED <<agents, task_queue, workflow_history, now, threadVars>>

\* The two `continue` tests of the query loop.
QueryMatches(atom, knowledge_type, source_agent) ==
    /\ ~(knowledge_type # "" /\ atom.atom_type # knowledge_type)
    /\ ~(source_agent # "" /\ atom.source_agent # source_agent)

QueryTouch(atom, t) ==
    [atom EXCEPT !.access_count = @ + 1, !.last_accessed = t]

RECURSIVE QueryLoopCountAll(_, _, _, _, _, _, _)
\* Mutant of QueryLoop: the access tracking is done before the filters.
QueryLoopCountAll(kb, i, results, knowledge_type, source_agent, limit, t) ==
    IF i > Len(kb) THEN [knowledge_base |-> kb, results |-> results]
    ELSE LET kb2 == [kb EXCEPT ![i] = QueryTouch(kb[i], t)] IN
         IF ~QueryMatches(kb[i], knowledge_type, source_agent)
         THEN QueryLoopCountAll(kb2, i + 1, results, knowledge_type, source_agent, limit, t)
         ELSE LET r2 == Append(results, kb[i].atom_id) IN
              IF Len(r2) >= limit
              THEN [knowledge_base |-> kb2, results |-> r2]
              ELSE QueryLoopCountAll(kb2, i + 1, r2, knowledge_type, source_agent, limit, t)

RECURSIVE QueryLoop(_, _, _, _, _, _, _)
\* for atom_id, atom in knowledge_base.items(): from entry i on, with the results
\* collected so far.
QueryLoop(kb, i, results, knowledge_type, source_agent, limit, t) ==
    IF i > Len(kb) THEN [knowledge_base |-> kb, results |-> results]
    ELSE IF ~QueryMatches(kb[i], knowledge_type, source_agent)
         THEN QueryLoop(kb, i + 1, results, knowledge_type, source_agent, limit, t)
    ELSE LET kb2 == [kb EXCEPT ![i] = QueryTouch(kb[i], t)]
             r2 == Append(results, kb[i].atom_id)
         IN IF Len(r2) >= limit
            THEN [knowledge_base |-> kb2, results |-> r2]
            ELSE QueryLoop(kb2, i + 1, r2, knowledge_type, source_agent, limit, t)

QueryOutcome(kb, knowledge_type, source_agent, limit, t) ==
    LET o == QueryLoop(kb, 1, <<>>, knowledge_type, source_agent, limit, t) IN
    [knowledge_base |-> o.knowledge_base,
     ret |-> [Return("query", source_agent, NoId, TRUE, "", 0) EXCEPT !.atoms = o.results]]

query_knowledge(knowledge_type, source_agent, limit) ==
    /\ knowledge_base' = QueryOutcome(knowledge_base, knowledge_type, source_agent,
                                      limit, now).knowledge_base
    /\ UNCHANGED <<agents, task_queue, workflow_history, now, threadVars>>

ClearReturn(confirm) ==
    IF confirm THEN Return("clear", "", NoId, TRUE, "", 0)
    ELSE Return("clear", "", NoId, FALSE, "ConfirmRequired", 0)

\* Mutant of clear_orchestration_state: the history is not cleared.
clear_keeps_history(confirm) ==
    /\ IF ~confirm
       THEN UNCHANGED stores
       ELSE /\ agents' = <<>>
            /\ knowledge_base' = <<>>
            /\ task_queue' = <<>>
            /\ UNCHANGED workflow_history
    /\ UNCHANGED <<now, threadVars>>

clear_orchestration_state(confirm) ==
    /\ IF ~confirm
       THEN UNCHANGED stores
       ELSE /\ agents' = <<>>
            /\ knowledge_base' = <<>>
            /\ task_queue' = <<>>
            /\ workflow_history' = <<>>
    /\ UNCHANGED <<now, threadVars>>

TaskSummary(task) ==
    [task_id |-> task.task_id, task_type |-> task.task_type, status |-> task.status,
     assigned_agent |-> IF task.assigned_agent = "" THEN "unassigned"
                        ELSE task.assigned_agent,
     priority |-> task.priority, created_at |-> task.created_at,
     params |-> task.params, uid |-> task.uid]

RECURSIVE ListTasks(_, _, _)
\* The loop of list_workflow_tasks: the tasks that pass both filters, in queue order.
ListTasks(queue, status, assigned_agent) ==
    IF queue = <<>> THEN <<>>
    ELSE IF status # "" /\ Head(queue).status # status
         THEN ListTasks(Tail(queue), status, assigned_agent)
    ELSE IF assigned_agent # "" /\ Head(queue).assigned_agent # assigned_agent
         THEN ListTasks(Tail(queue), status, assigned_agent)
    ELSE <<TaskSummary(Head(queue))>> \o ListTasks(Tail(queue), status, assigned_agent)

-----------------------------------------------------------------------------
(* Spec: the agent registry and the task queue, one caller at a time.       *)
(* last, ret and returned record what calls returned; a specification that  *)
(* does not need them leaves them as they are.                              *)

NoLog == UNCHANGED <<last, returned>>


Next ==
    \/ now < MaxTime /\ Tick /\ NoLog
    \/ \E a \in AgentIds, ty \in AgentTypes, c \in CapInputs :
          register_agent(a, ty, c) /\ NoLog
    \/ \E a \in AgentIds : deregister_agent(a) /\ NoLog
    \/ /\ Len(task_queue) < MaxTasks
       /\ \E ty \in TaskTypes, p \in Payloads, a \in AssignArgs, pr \in Priorities :
             create_workflow_task(ty, p, a, pr) /\ NoLog
    \/ \E a \in AgentIds, id \in TaskIdArgs : claim_workflow_task(a, id) /\ NoLog
    \/ /\ Len(workflow_history) < MaxHistory
       /\ \E id \in 0..MaxTime, r \in Payloads, s \in BOOLEAN :
             complete_workflow_task(id, r, s) /\ NoLog
    \/ \E c \in BOOLEAN : clear_orchestration_state(c) /\ NoLog

Spec == Init /\ [][Next]_vars

-----------------------------------------------------------------------------
(* SpecQueue: a longer queue worked by a single agent *)

NextQueue ==
    \/ now < MaxTime /\ Tick /\ NoLog
    \/ \E ty \in AgentTypes, c \in CapInputs : register_agent("a1", ty, c) /\ NoLog
    \/ /\ Len(task_queue) < MaxQueue
       /\ \E ty \in TaskTypes, a \in AssignArgs, pr \in Priorities :
             create_workflow_task(ty, "", a, pr) /\ NoLog
    \/ \E id \in TaskIdArgs : claim_workflow_task("a1", id) /\ NoLog
    \/ /\ Len(workflow_history) < MaxHistory
       /\ \E id \in 0..MaxTime, sc \in BOOLEAN :
             complete_workflow_task(id, "", sc) /\ NoLog
    \/ clear_orchestration_state(TRUE) /\ NoLog

SpecQueue == Init /\ [][NextQueue]_vars

-----------------------------------------------------------------------------
(* Concurrent callers of claim_workflow_task.  A thread's call is split at   *)
(* the points where another thread could run were it not for the lock:      *)
(* entering `with lock`, the search for task_to_claim, and the update.      *)

\* Mutant of LockFree: the lock never blocks.
LockFreeAlways(t) == TRUE

\* Mutant of LockFree: a plain threading.Lock, which its own holder waits for.
LockFreeNotReentrant(t) == lock.owner = ""

\* Mutant of LockFree: get_orchestration_status is let in whoever holds the lock.
LockFreeForStatus(t) == lock.owner = "" \/ lock.owner = t \/ req[t].op = "status"

\* Mutant of LockFree: a query is let in whoever holds the lock.
LockFreeForQuery(t) == lock.owner = "" \/ lock.owner = t \/ req[t].op = "query"

\* threading.RLock: free, or held by the thread that asks for it.
LockFree(t) == lock.owner = "" \/ lock.owner = t

LockAcquired(t) == [owner |-> t, count |-> lock.count + 1]

\* Mutant of LockReleased: a return leaves the lock held.
LockReleasedNever(t) == lock

\* Leaving the `with` block, on every return path.
LockReleased(t) ==
    IF lock.count = 1 THEN [owner |-> "", count |-> 0]
    ELSE [owner |-> lock.owner, count |-> lock.count - 1]

Call(t, agent_id, task_id) ==
    /\ pc[t] = "idle"
    /\ pc' = [pc EXCEPT ![t] = "acquire"]
    /\ req' = [req EXCEPT ![t] = [agent_id |-> agent_id, task_id |-> task_id]]
    /\ UNCHANGED <<stores, now, last, lock, found, claimed_by>>

Acquire(t) ==
    /\ pc[t] = "acquire"
    /\ LockFree(t)
    /\ lock' = LockAcquired(t)
    /\ pc' = [pc EXCEPT ![t] = "find"]
    /\ UNCHANGED <<stores, now, last, req, found, claimed_by>>

\* What the search step returns to the caller, when it returns.
FindReturn(t) ==
    LET a == req[t].agent_id
        id == req[t].task_id
    IN IF a \notin DOMAIN agents THEN Return("claim", a, id, FALSE, "NotRegistered", 0)
       ELSE IF ClaimFind(task_queue, id) = 0
            THEN Return("claim", a, id, FALSE, "NoAvailableTask", 0)
            ELSE ret[t]

\* Lines 405-433: the agent check and the search; both error returns leave the lock.
ClaimFindStep(t, after) ==
    /\ pc[t] = "find"
    /\ LET i == ClaimFind(task_queue, req[t].task_id)
       IN IF req[t].agent_id \notin DOMAIN agents \/ i = 0
          THEN /\ lock' = LockReleased(t)
               /\ pc' = [pc EXCEPT ![t] = after]
               /\ req' = [req EXCEPT ![t] = NoRequest]
               /\ UNCHANGED found
          ELSE /\ found' = [found EXCEPT ![t] = i]
               /\ pc' = [pc EXCEPT ![t] = "set"]
               /\ UNCHANGED <<lock, req>>
    /\ UNCHANGED <<stores, now, last, claimed_by>>

SetReturn(t) ==
    Return("claim", req[t].agent_id, req[t].task_id, TRUE, "", task_queue[found[t]].uid)

\* Lines 435-449: the update of task_to_claim and of the agent, and the return.
ClaimSetStep(t, after) ==
    /\ pc[t] = "set"
    /\ task_queue' = ClaimQueue(task_queue, found[t], req[t].agent_id, now)
    /\ agents' = ClaimAgents(agents, req[t].agent_id, now)
    /\ claimed_by' = [claimed_by EXCEPT ![task_queue[found[t]].uid] = @ + 1]
    /\ lock' = LockReleased(t)
    /\ pc' = [pc EXCEPT ![t] = after]
    /\ found' = [found EXCEPT ![t] = 0]
    /\ req' = [req EXCEPT ![t] = NoRequest]
    /\ UNCHANGED <<knowledge_base, workflow_history, now, last>>

BothRegistered ==
    RegisterOutcome(RegisterOutcome(<<>>, "a1", "cursor", "", 0).agents,
                    "a2", "cursor", "", 0).agents

RECURSIVE QueuesAfter(_)
\* The queues (with the time of the last call) that n or fewer creates build.
QueuesAfter(n) ==
    IF n = 0 THEN {[q |-> <<>>, t |-> 0]}
    ELSE LET P == QueuesAfter(n - 1) IN
         P \cup {[q |-> CreateQueue(s.q, ty, "", a, pr, t2), t |-> t2] :
                   s \in P, ty \in TaskTypes, a \in AssignArgs,
                   pr \in Priorities, t2 \in 0..MaxTime}

StartStates == {s \in QueuesAfter(MaxConcTasks) :
                  \A i \in 1..Len(s.q) : s.q[i].created_at <= s.t}

InitConc ==
    /\ agents \in {BothRegistered, RegisterOutcome(<<>>, "a1", "cursor", "", 0).agents}
    /\ knowledge_base = <<>>
    /\ workflow_history = <<>>
    /\ \E s \in StartStates : task_queue = s.q /\ now = s.t
    /\ last = NoReturn
    /\ lock = [owner |-> "", count |-> 0]
    /\ pc = [t \in Threads |-> "idle"]
    /\ req = [t \in Threads |-> NoRequest]
    /\ found = [t \in Threads |-> 0]
    /\ ret = [t \in Threads |-> NoReturn]
    /\ claimed_by = [u \in 1..Len(task_queue) |-> 0]
    /\ returned = <<>>

NextConc ==
    \E t \in Threads :
       \/ \E a \in AgentIds, id \in TaskIdArgs : Call(t, a, id) /\ UNCHANGED <<ret, returned>>
       \/ Acquire(t) /\ UNCHANGED <<ret, returned>>
       \/ ClaimFindStep(t, "idle") /\ UNCHANGED <<ret, returned>>
       \/ ClaimSetStep(t, "idle") /\ UNCHANGED <<ret, returned>>

SpecConc == InitConc /\ [][NextConc]_vars

\* C1: no task object is returned as successfully claimed by more than one call.
C1_NoDoubleClaim ==
    \A u \in DOMAIN claimed_by : claimed_by[u] <= 1

C1_Witness ==
    /\ Len(task_queue) = 2
    /\ \A u \in DOMAIN claimed_by : claimed_by[u] = 1
    /\ task_queue[1].task_id = task_queue[2].task_id
    /\ task_queue[1].assigned_agent = "a1" /\ task_queue[2].assigned_agent = "a2"
    /\ agents["a1"].task_count = 1 /\ agents["a2"].task_count = 1

-----------------------------------------------------------------------------
(* SpecPair: two callers, one call each of claim_workflow_task(agent, ""),    *)
(* against a queue that holds exactly one pending task with no assignee.     *)

QueueIdx == 1..Len(task_queue)

Unassigned(q) == {i \in 1..Len(q) : q[i].status = "pending" /\ q[i].assigned_agent = ""}

InitPair ==
    /\ agents = BothRegistered
    /\ knowledge_base = <<>>
    /\ workflow_history = <<>>
    /\ \E s \in StartStates :
          /\ Cardinality(Unassigned(s.q)) = 1
          /\ task_queue = s.q
          /\ now = s.t
    /\ last = NoReturn
    /\ lock = [owner |-> "", count |-> 0]
    /\ pc = [t \in Threads |-> "idle"]
    /\ req = [t \in Threads |-> NoRequest]
    /\ found = [t \in Threads |-> 0]
    /\ ret = [t \in Threads |-> NoReturn]
    /\ claimed_by = [u \in 1..Len(task_queue) |-> 0]
    /\ returned = <<>>

NextPair ==
    \E t \in Threads :
       \/ \E a \in AgentIds : Call(t, a, NoId) /\ UNCHANGED <<ret, returned>>
       \/ Acquire(t) /\ UNCHANGED <<ret, returned>>
       \/ ClaimFindStep(t, "returned") /\ ret' = [ret EXCEPT ![t] = FindReturn(t)] /\ UNCHANGED returned
       \/ ClaimSetStep(t, "returned") /\ ret' = [ret EXCEPT ![t] = SetReturn(t)] /\ UNCHANGED returned

SpecPair == InitPair /\ [][NextPair]_vars

BothReturned == \A t \in Threads : pc[t] = "returned"

\* C2: of the two calls exactly one returns success, with the one task that was
\* pending and unassigned, and the other returns the no-available-task error.
C2_ExactlyOneWins ==
    BothReturned =>
       \E w \in Threads : \E l \in Threads \ {w} :
          /\ ret[w].ok
          /\ ~ret[l].ok /\ ret[l].error = "NoAvailableTask"
          /\ \E i \in 1..Len(task_queue) :
                /\ task_queue[i].uid = ret[w].uid
                /\ task_queue[i].status = "claimed"
                /\ task_queue[i].assigned_agent = ret[w].agent_id
                /\ \A j \in 1..Len(task_queue) : j # i =>
                      /\ task_queue[j].status = "pending"
                      /\ task_queue[j].assigned_agent # ""
          /\ claimed_by[ret[w].uid] = 1

C2_Witness ==
    /\ BothReturned
    /\ ret["t2"].ok /\ ret["t2"].agent_id = "a2"
    /\ ~ret["t1"].ok /\ ret["t1"].agent_id = "a1"
    /\ Len(task_queue) = 2 /\ task_queue[2].uid = ret["t2"].uid

-----------------------------------------------------------------------------
(* SpecKnowledge: the knowledge atomspace.  `returned` counts, for each atom *)
(* of the store, the query calls whose result included it.                  *)

AtomIdx == 1..Len(knowledge_base)

InResult(atom, r) == \E k \in 1..Len(r.atoms) : r.atoms[k] = atom.atom_id

\* A new atom has been returned by no query.
ReturnedAfterShare(kb2) ==
    [u \in {kb2[i].uid : i \in 1..Len(kb2)} |->
        IF u \in DOMAIN returned THEN returned[u] ELSE 0]

ReturnedAfterQuery(r) ==
    [u \in DOMAIN returned |->
        IF \E i \in AtomIdx : knowledge_base[i].uid = u /\ InResult(knowledge_base[i], r)
        THEN returned[u] + 1 ELSE returned[u]]

NextKnowledge ==
    \/ now < MaxTime /\ Tick /\ last' = TickReturn /\ UNCHANGED returned
    \/ \E kt \in KnowledgeTypes, c \in Payloads, sa \in SourceArgs, md \in Payloads :
          LET o == ShareOutcome(knowledge_base, kt, c, sa, md, now) IN
             /\ Len(o.knowledge_base) <= MaxAtoms
             /\ share_knowledge(kt, c, sa, md)
             /\ last' = o.ret
             /\ returned' = ReturnedAfterShare(o.knowledge_base)
    \/ /\ \A i \in AtomIdx : knowledge_base[i].access_count < MaxAccess
       /\ \E kt \in KnowledgeTypes \cup {""}, sa \in SourceArgs, lim \in Limits :
             /\ query_knowledge(kt, sa, lim)
             /\ last' = QueryOutcome(knowledge_base, kt, sa, lim, now).ret
             /\ returned' = ReturnedAfterQuery(last')
    \/ /\ clear_orchestration_state(TRUE)
       /\ last' = ClearReturn(TRUE)
       /\ returned' = <<>>

SpecKnowledge == Init /\ [][NextKnowledge]_vars

-----------------------------------------------------------------------------
(* SpecClaim: claims, each recorded in `last`, on the queues that creates   *)
(* have built.                                                              *)

NextClaim ==
    \/ now < MaxTime /\ Tick /\ last' = TickReturn /\ UNCHANGED returned
    \/ \E a \in AgentIds, id \in TaskIdArgs :
          /\ claim_workflow_task(a, id)
          /\ last' = ClaimOutcome(agents, task_queue, a, id, now).ret
          /\ UNCHANGED returned

SpecClaim == InitConc /\ [][NextClaim]_vars

\* Task i is the first choice among the tasks P: the highest priority, and the
\* earliest created of that priority.
Best(i, P) ==
    \A j \in P \ {i} :
       \/ task_queue[i].priority > task_queue[j].priority
       \/ /\ task_queue[i].priority = task_queue[j].priority
          /\ task_queue[i].uid < task_queue[j].uid

-----------------------------------------------------------------------------
(* Properties of the task queue *)

\* Task i before the step and task j after it are the same task object.
SameTask(i, j) == task_queue[i].uid = task_queue'[j].uid

Terminal == {"completed", "failed"}

\* C3: every change of a task's status is pending->claimed, claimed->completed or
\* claimed->failed (no completion without a claim, no change after completion).
C3_OnlyLifecycleTransitions ==
    [][\A i \in QueueIdx : \A j \in 1..Len(task_queue') :
          (SameTask(i, j) /\ task_queue[i].status # task_queue'[j].status)
             => <<task_queue[i].status, task_queue'[j].status>> \in
                   {<<"pending", "claimed">>, <<"claimed", "completed">>,
                    <<"claimed", "failed">>}]_vars

\* C4: a task that has left pending never becomes pending again, and a completed
\* or failed task never becomes claimed again (a confirmed clear removes the task).
C4_NeverReopened ==
    [][\A i \in QueueIdx : \A j \in 1..Len(task_queue') :
          SameTask(i, j) =>
             /\ task_queue[i].status # "pending" => task_queue'[j].status # "pending"
             /\ task_queue[i].status \in Terminal => task_queue'[j].status # "claimed"]_vars

C4_Witness ==
    /\ Len(workflow_history) = 2
    /\ \E i \in QueueIdx : task_queue[i].status = "failed" /\ task_queue[i].started_at # None
    /\ \E i \in QueueIdx : task_queue[i].status = "claimed"

\* C5: a task that has been claimed (started_at is set) keeps its assigned_agent in
\* every later step, and that one holder is an agent of the registry.
C5_AssigneeImmutable ==
    /\ [](\A i \in QueueIdx :
             task_queue[i].started_at # None => task_queue[i].assigned_agent \in DOMAIN agents)
    /\ [][\A i \in QueueIdx : \A j \in 1..Len(task_queue') :
             (SameTask(i, j) /\ task_queue[i].started_at # None)
                => task_queue'[j].assigned_agent = task_queue[i].assigned_agent]_vars

C5_Witness ==
    /\ \E i \in QueueIdx :
          /\ task_queue[i].status = "completed"
          /\ task_queue[i].assigned_agent = "a2"
          /\ agents["a2"].status = "inactive"
    /\ "a1" \in DOMAIN agents /\ agents["a1"].task_count = 1

SortedStable(q) ==
    \A i \in 1..Len(q) : \A j \in 1..Len(q) :
       i < j => \/ q[i].priority > q[j].priority
                \/ q[i].priority = q[j].priority /\ q[i].uid < q[j].uid

\* C6: the queue, and so what list_workflow_tasks returns under any filter, is in
\* descending priority order, tasks of equal priority in creation order.
C6_QueueSortedStable ==
    /\ SortedStable(task_queue)
    /\ ListTasks(task_queue, "", "") = [i \in QueueIdx |-> TaskSummary(task_queue[i])]
    /\ \A st \in {"", "pending", "claimed", "completed", "failed"} :
          \A a \in AgentIds \cup {""} : SortedStable(ListTasks(task_queue, st, a))

C6_Witness ==
    /\ Len(task_queue) = 3
    /\ task_queue[1].uid = 2 /\ task_queue[2].uid = 3 /\ task_queue[3].uid = 1
    /\ task_queue[1].priority = task_queue[2].priority
    /\ task_queue[1].status = "completed"
    /\ task_queue[2].status = "claimed"

\* C9: any two distinct tasks of the queue have distinct task_ids.
C9_TaskIdsUnique ==
    \A i \in QueueIdx : \A j \in QueueIdx :
       i # j => task_queue[i].task_id # task_queue[j].task_id

-----------------------------------------------------------------------------
(* Properties of the knowledge atomspace *)

\* C8: a successful share yields an atom_id that no stored atom has, so that it
\* adds one atom to the store and replaces none.
C8_ShareYieldsFreshAtomId ==
    [][(last'.op = "share" /\ last'.ok) =>
          /\ \A i \in AtomIdx : knowledge_base[i].atom_id # last'.atoms[1]
          /\ Len(knowledge_base') = Len(knowledge_base) + 1]_vars

\* The filters of a query, as the documentation of query_knowledge states them.
PassesFilters(atom, kt, sa) ==
    (kt = "" \/ atom.atom_type = kt) /\ (sa = "" \/ atom.source_agent = sa)

RECURSIVE Matching(_, _, _)
\* The atom_ids of the atoms that pass both filters, in the store's insertion order.
Matching(kb, kt, sa) ==
    IF kb = <<>> THEN <<>>
    ELSE (IF PassesFilters(Head(kb), kt, sa) THEN <<Head(kb).atom_id>> ELSE <<>>)
            \o Matching(Tail(kb), kt, sa)

MinNat(a, b) == IF a <= b THEN a ELSE b

\* C11: a query returns exactly the first min(limit, m) of the m matching atoms, in
\* insertion order, for every limit, 0 included: never more than limit atoms.
C11_QueryReturnsFirstLimit ==
    [][\A kt \in KnowledgeTypes \cup {""}, sa \in SourceArgs, lim \in Limits :
          (/\ query_knowledge(kt, sa, lim)
           /\ last' = QueryOutcome(knowledge_base, kt, sa, lim, now).ret) =>
             LET M == Matching(knowledge_base, kt, sa)
             IN last'.atoms = SubSeq(M, 1, MinNat(lim, Len(M)))]_vars

-----------------------------------------------------------------------------
(* SpecRegistry: the agent registry under registrations with differing       *)
(* agent_type and capabilities, beside one task, one atom and one history    *)
(* record; every call is recorded in `last`.                                 *)

\* The (agent_type, capabilities) pairs that registrations supply.
RegInputs == {<<"cursor", "">>, <<"windsurf", "bp, ui">>}

NextRegistry ==
    \/ now < MaxTime /\ Tick /\ last' = TickReturn /\ UNCHANGED returned
    \/ \E a \in AgentIds, inp \in RegInputs :
          /\ register_agent(a, inp[1], inp[2])
          /\ last' = RegisterOutcome(agents, a, inp[1], inp[2], now).ret
          /\ UNCHANGED returned
    \/ \E a \in AgentIds :
          /\ deregister_agent(a)
          /\ last' = DeregisterOutcome(agents, a).ret
          /\ UNCHANGED returned
    \/ /\ task_queue = <<>>
       /\ create_workflow_task("create_actor", "", "", 0)
       /\ last' = CreateOutcome(task_queue, "create_actor", "", "", 0, now).ret
       /\ UNCHANGED returned
    \/ \E a \in AgentIds :
          /\ claim_workflow_task(a, NoId)
          /\ last' = ClaimOutcome(agents, task_queue, a, NoId, now).ret
          /\ UNCHANGED returned
    \/ /\ workflow_history = <<>>
       /\ \E id \in 0..MaxTime :
             /\ complete_workflow_task(id, "", TRUE)
             /\ last' = CompleteOutcome(task_queue, workflow_history, id, "", TRUE, now).ret
             /\ UNCHANGED returned
    \/ /\ knowledge_base = <<>>
       /\ share_knowledge("actor", "", "a1", "")
       /\ last' = ShareOutcome(knowledge_base, "actor", "", "a1", "", now).ret
       /\ UNCHANGED returned
    \/ \E c \in BOOLEAN :
          /\ clear_orchestration_state(c)
          /\ last' = ClearReturn(c)
          /\ UNCHANGED returned

SpecRegistry == Init /\ [][NextRegistry]_vars

\* C12: registering an agent_id the registry holds sets its status to active and
\* its last_active to the time of the call, keeps its task_count, created_at,
\* agent_type and capabilities whatever is supplied, and changes nothing else.
C12_ReRegisterKeepsSession ==
    [][(last'.op = "register" /\ last'.agent_id \in DOMAIN agents) =>
          LET a == last'.agent_id IN
             /\ last'.ok
             /\ DOMAIN agents' = DOMAIN agents
             /\ agents'[a].status = "active"
             /\ agents'[a].last_active = now
             /\ agents'[a].task_count = agents[a].task_count
             /\ agents'[a].created_at = agents[a].created_at
             /\ agents'[a].agent_type = agents[a].agent_type
             /\ agents'[a].capabilities = agents[a].capabilities
             /\ \A b \in DOMAIN agents \ {a} : agents'[b] = agents[b]
             /\ UNCHANGED <<knowledge_base, task_queue, workflow_history>>]_vars

C12_Witness ==
    /\ last.op = "register" /\ last.agent_id = "a1"
    /\ agents["a1"].status = "active"
    /\ agents["a1"].task_count = 1
    /\ agents["a1"].agent_type = "cursor"
    /\ agents["a1"].created_at = 0 /\ agents["a1"].last_active = 1
    /\ "a2" \in DOMAIN agents /\ agents["a2"].agent_type = "windsurf"
    /\ agents["a2"].status = "inactive"
    /\ Len(task_queue) = 1 /\ Len(knowledge_base) = 1 /\ Len(workflow_history) = 1

-----------------------------------------------------------------------------
(* SpecFrame: the claims of SpecClaim, started with one atom in the store    *)
(* and, in some of the initial states, the first task of the queue already   *)
(* completed and recorded in the history.                                    *)

OneAtom == ShareOutcome(<<>>, "actor", "", "a1", "", 0).knowledge_base

\* The stores after the creates of s, or after them and one complete of the
\* first task.
WorkedStates ==
    {[q |-> s.q, h |-> <<>>, t |-> s.t] : s \in StartStates}
    \cup {LET o == CompleteOutcome(s.q, <<>>, s.q[1].task_id, "", sc, s.t)
          IN [q |-> o.task_queue, h |-> o.workflow_history, t |-> s.t] :
             s \in {x \in StartStates : x.q # <<>>}, sc \in BOOLEAN}

InitFrame ==
    /\ agents \in {BothRegistered, RegisterOutcome(<<>>, "a1", "cursor", "", 0).agents}
    /\ knowledge_base = OneAtom
    /\ \E s \in WorkedStates :
          task_queue = s.q /\ workflow_history = s.h /\ now = s.t
    /\ last = NoReturn
    /\ lock = [owner |-> "", count |-> 0]
    /\ pc = [t \in Threads |-> "idle"]
    /\ req = [t \in Threads |-> NoRequest]
    /\ found = [t \in Threads |-> 0]
    /\ ret = [t \in Threads |-> NoReturn]
    /\ claimed_by = [u \in 1..Len(task_queue) |-> 0]
    /\ returned = <<>>

SpecFrame == InitFrame /\ [][NextClaim]_vars

\* C13: a successful claim takes one pending task to claimed with the caller as
\* assigned_agent and started_at set, adds 1 to the caller's task_count, and leaves
\* every other task, the queue order, every other agent, the atoms and the history
\* as they were.
C13_ClaimChangesOneTaskOneAgent ==
    [][(last'.op = "claim" /\ last'.ok) =>
          LET a == last'.agent_id IN
             /\ \E i \in QueueIdx :
                   /\ task_queue[i].uid = last'.uid
                   /\ task_queue[i].status = "pending"
                   /\ task_queue' = [task_queue EXCEPT
                                       ![i] = [task_queue[i] EXCEPT
                                                 !.status = "claimed",
                                                 !.assigned_agent = a,
                                                 !.started_at = now]]
             /\ a \in DOMAIN agents /\ DOMAIN agents' = DOMAIN agents
             /\ agents'[a] = [agents[a] EXCEPT !.task_count = agents[a].task_count + 1,
                                               !.last_active = now]
             /\ \A b \in DOMAIN agents \ {a} : agents'[b] = agents[b]
             /\ UNCHANGED <<knowledge_base, workflow_history>>]_vars

C13_Witness ==
    /\ last.op = "claim" /\ last.ok /\ last.agent_id = "a2" /\ last.task_id # NoId
    /\ Len(task_queue) = 2 /\ Len(workflow_history) = 1 /\ Len(knowledge_base) = 1
    /\ task_queue[1].status = "completed"
    /\ task_queue[2].status = "claimed" /\ task_queue[2].uid = last.uid
    /\ task_queue[2].started_at = 1
    /\ agents["a2"].task_count = 1 /\ agents["a1"].task_count = 0

-----------------------------------------------------------------------------
(* SpecComplete: claims and completions, each recorded in `last`, on the     *)
(* queues that creates have built.                                           *)

\* The (result, success) arguments: no result, valid JSON, invalid JSON.
CompleteInputs == {<<"", TRUE>>, <<"[1]", FALSE>>, <<"{bad", TRUE>>}

NextComplete ==
    \/ now < MaxTime /\ Tick /\ last' = TickReturn /\ UNCHANGED returned
    \/ /\ claim_workflow_task("a1", NoId)
       /\ last' = ClaimOutcome(agents, task_queue, "a1", NoId, now).ret
       /\ UNCHANGED returned
    \/ /\ Len(workflow_history) < MaxHistory
       /\ \E id \in 0..MaxTime, inp \in CompleteInputs :
             /\ complete_workflow_task(id, inp[1], inp[2])
             /\ last' = CompleteOutcome(task_queue, workflow_history, id,
                                        inp[1], inp[2], now).ret
             /\ UNCHANGED returned

\* One registered agent and a queue that creates of one priority have built.
InitComplete ==
    /\ InitConc
    /\ DOMAIN agents = {"a1"}
    /\ \A i \in QueueIdx : task_queue[i].priority = 0

SpecComplete == InitComplete /\ [][NextComplete]_vars

\* C14: a successful complete sets the task's status to completed if success and to
\* failed otherwise, records completed_at and the result, and appends to the end of
\* the history one record with the task_id, the task's assigned_agent and the new
\* status; the returned task_status is the new status.
C14_CompleteSetsStatusAndHistory ==
    [][\A id \in 0..MaxTime, inp \in CompleteInputs :
          (/\ complete_workflow_task(id, inp[1], inp[2])
           /\ last' = CompleteOutcome(task_queue, workflow_history, id,
                                      inp[1], inp[2], now).ret
           /\ last'.ok) =>
             \E i \in QueueIdx :
                /\ task_queue[i].uid = last'.uid /\ task_queue[i].task_id = id
                /\ task_queue' = [task_queue EXCEPT
                                    ![i] = [task_queue[i] EXCEPT
                                              !.status = IF inp[2] THEN "completed"
                                                         ELSE "failed",
                                              !.completed_at = now,
                                              !.result = JsonLoads(inp[1])]]
                /\ last'.task_status = task_queue'[i].status
                /\ Len(workflow_history') = Len(workflow_history) + 1
                /\ SubSeq(workflow_history', 1, Len(workflow_history)) = workflow_history
                /\ LET h == workflow_history'[Len(workflow_history')] IN
                      /\ h.task_id = id
                      /\ h.agent = task_queue'[i].assigned_agent
                      /\ h.status = task_queue'[i].status
                      /\ h.result = task_queue'[i].result
                      /\ h.completed_at = now]_vars

C14_Witness ==
    /\ last.op = "complete" /\ last.ok /\ last.task_status = "failed"
    /\ Len(task_queue) = 2 /\ Len(workflow_history) = 1
    /\ \E i \in QueueIdx :
          /\ task_queue[i].uid = last.uid
          /\ task_queue[i].status = "failed" /\ task_queue[i].result = "[1]"
          /\ task_queue[i].assigned_agent = "a1" /\ task_queue[i].started_at = 0
          /\ task_queue[i].completed_at = 1
    /\ workflow_history[1].agent = "a1" /\ workflow_history[1].status = "failed"

\* C15: a complete with a task_id that no task of the queue has returns the
\* not-found error and changes no task, no history record and no other store.
C15_CompleteUnknownTaskNoChange ==
    [][(/\ last'.op = "complete"
        /\ \A i \in QueueIdx : task_queue[i].task_id # last'.task_id) =>
          /\ ~last'.ok /\ last'.error = "NotFound"
          /\ UNCHANGED stores]_vars

C15_Witness ==
    /\ last.op = "complete" /\ ~last.ok /\ last.error = "NotFound"
    /\ Len(task_queue) = 2 /\ Len(workflow_history) = 1
    /\ task_queue[1].status = "completed" /\ task_queue[2].status = "claimed"

\* The first task of the queue with this task_id: the one complete addresses.
FirstWithId(i, id) ==
    /\ task_queue[i].task_id = id
    /\ \A j \in QueueIdx : j < i => task_queue[j].task_id # id

\* The tasks of the queue that are completed or failed.
TerminalTasks == {i \in QueueIdx : task_queue[i].status \in Terminal}

\* C16: a complete (with a well-formed result) of a task that is already completed
\* or failed returns success, overwrites status and result, and appends a second
\* history record for the task_id; the history may then hold more records than
\* there are completed or failed tasks.
C16_SecondCompleteAccepted ==
    [][\A id \in 0..MaxTime, inp \in CompleteInputs :
          (/\ complete_workflow_task(id, inp[1], inp[2])
           /\ last' = CompleteOutcome(task_queue, workflow_history, id,
                                      inp[1], inp[2], now).ret
           /\ inp[1] # "{bad"
           /\ \E i \in TerminalTasks : FirstWithId(i, id)) =>
             \E i \in TerminalTasks :
                /\ FirstWithId(i, id)
                /\ last'.ok /\ last'.uid = task_queue[i].uid
                /\ task_queue'[i].status = (IF inp[2] THEN "completed" ELSE "failed")
                /\ task_queue'[i].result = JsonLoads(inp[1])
                /\ last'.task_status = task_queue'[i].status
                /\ Len(workflow_history') = Len(workflow_history) + 1
                /\ workflow_history'[Len(workflow_history')].task_id = id
                /\ \E k \in 1..Len(workflow_history) : workflow_history[k].task_id = id
                /\ Len(workflow_history') > Cardinality(TerminalTasks)]_vars

C16_Witness ==
    /\ last.op = "complete" /\ last.ok /\ last.task_status = "failed"
    /\ Len(workflow_history) = 2
    /\ workflow_history[1].task_id = workflow_history[2].task_id
    /\ workflow_history[1].status = "completed" /\ workflow_history[1].result = "{}"
    /\ workflow_history[2].status = "failed" /\ workflow_history[2].result = "[1]"
    /\ Cardinality(TerminalTasks) = 1
    /\ \E i \in TerminalTasks :
          /\ task_queue[i].uid = last.uid
          /\ task_queue[i].status = "failed" /\ task_queue[i].result = "[1]"
          /\ task_queue[i].started_at # None

\* C17: clear without confirmation returns an error and leaves the four stores as
\* they were; clear with confirmation returns success and leaves all four empty.
C17_ClearNeedsConfirm ==
    [][\A c \in BOOLEAN :
          (clear_orchestration_state(c) /\ last' = ClearReturn(c)) =>
             IF c
             THEN /\ last'.ok
                  /\ agents' = <<>> /\ knowledge_base' = <<>>
                  /\ task_queue' = <<>> /\ workflow_history' = <<>>
             ELSE /\ ~last'.ok /\ last'.error = "ConfirmRequired"
                  /\ UNCHANGED stores]_vars

C17_Witness ==
    /\ last.op = "clear" /\ ~last.ok
    /\ DOMAIN agents = AgentIds /\ Len(knowledge_base) = 1
    /\ Len(task_queue) = 1 /\ Len(workflow_history) = 1

-----------------------------------------------------------------------------
(* SpecStatus: get_orchestration_status called between the other calls; the  *)
(* snapshot it returns is kept in `returned` until the next call.            *)

RECURSIVE CountStatus(_, _)
\* sum(1 for t in task_queue if t.status == status)
CountStatus(queue, status) ==
    IF queue = <<>> THEN 0
    ELSE (IF Head(queue).status = status THEN 1 ELSE 0) + CountStatus(Tail(queue), status)

\* Mutant of StatusSnapshot: completed_tasks counts the completed tasks of the queue.
StatusSnapshotQueueCount(ags, kb, queue, history) ==
    [active_agents |-> Cardinality({a \in DOMAIN ags : ags[a].status = "active"}),
     total_agents |-> Cardinality(DOMAIN ags),
     pending_tasks |-> CountStatus(queue, "pending"),
     claimed_tasks |-> CountStatus(queue, "claimed"),
     completed_tasks |-> CountStatus(queue, "completed"),
     knowledge_atoms |-> Len(kb)]

\* The "orchestration" object that get_orchestration_status returns.
StatusSnapshot(ags, kb, queue, history) ==
    [active_agents |-> Cardinality({a \in DOMAIN ags : ags[a].status = "active"}),
     total_agents |-> Cardinality(DOMAIN ags),
     pending_tasks |-> CountStatus(queue, "pending"),
     claimed_tasks |-> CountStatus(queue, "claimed"),
     completed_tasks |-> Len(history),
     knowledge_atoms |-> Len(kb)]

get_orchestration_status ==
    UNCHANGED <<stores, now, threadVars>>

StatusReturn == Return("status", "", NoId, TRUE, "", 0)

NextStatus ==
    \/ \E a \in AgentIds :
          /\ register_agent(a, "cursor", "")
          /\ last' = RegisterOutcome(agents, a, "cursor", "", now).ret
          /\ returned' = <<>>
    \/ \E a \in AgentIds :
          /\ deregister_agent(a)
          /\ last' = DeregisterOutcome(agents, a).ret
          /\ returned' = <<>>
    \/ /\ Len(task_queue) < MaxTasks
       /\ create_workflow_task("create_actor", "", "", 0)
       /\ last' = CreateOutcome(task_queue, "create_actor", "", "", 0, now).ret
       /\ returned' = <<>>
    \/ \E a \in AgentIds :
          /\ claim_workflow_task(a, NoId)
          /\ last' = ClaimOutcome(agents, task_queue, a, NoId, now).ret
          /\ returned' = <<>>
    \/ /\ Len(workflow_history) < MaxHistory
       /\ \E sc \in BOOLEAN :
             /\ complete_workflow_task(now, "", sc)
             /\ last' = CompleteOutcome(task_queue, workflow_history, now, "", sc, now).ret
             /\ returned' = <<>>
    \/ \E kt \in KnowledgeTypes :
          /\ share_knowledge(kt, "", "a1", "")
          /\ last' = ShareOutcome(knowledge_base, kt, "", "a1", "", now).ret
          /\ returned' = <<>>
    \/ /\ get_orchestration_status
       /\ last' = StatusReturn
       /\ returned' = StatusSnapshot(agents, knowledge_base, task_queue, workflow_history)

SpecStatus == Init /\ [][NextStatus]_vars

\* C18: the snapshot reports the agents that are active, the agents of the registry,
\* the tasks that are pending and those that are claimed, the length of the history
\* as completed_tasks and the number of atoms; the call changes no store.
C18_StatusCountsStores ==
    [][last'.op = "status" =>
          /\ returned'.active_agents =
                Cardinality({a \in DOMAIN agents : agents[a].status = "active"})
          /\ returned'.total_agents = Cardinality(DOMAIN agents)
          /\ returned'.pending_tasks =
                Cardinality({i \in QueueIdx : task_queue[i].status = "pending"})
          /\ returned'.claimed_tasks =
                Cardinality({i \in QueueIdx : task_queue[i].status = "claimed"})
          /\ returned'.completed_tasks = Len(workflow_history)
          /\ returned'.knowledge_atoms = Len(knowledge_base)
          /\ UNCHANGED stores]_vars

C18_Witness ==
    /\ last.op = "status"
    /\ returned = [active_agents |-> 1, total_agents |-> 2, pending_tasks |-> 0,
                   claimed_tasks |-> 1, completed_tasks |-> 2, knowledge_atoms |-> 2]
    /\ Len(task_queue) = 2

-----------------------------------------------------------------------------
(* SpecScenario: one registered agent; three creates of unassigned tasks,    *)
(* two claims without task_id, one complete and one status call, in that     *)
(* order, with the clock free to advance between any two calls.  `returned`  *)
(* lists what the calls returned.                                            *)

ScenarioPriorities == {1, 5, 10}

Calls == Len(returned)

InitScenario ==
    /\ agents = RegisterOutcome(<<>>, "a1", "cursor", "", 0).agents
    /\ knowledge_base = <<>>
    /\ task_queue = <<>>
    /\ workflow_history = <<>>
    /\ now = 0
    /\ last = NoReturn
    /\ lock = [owner |-> "", count |-> 0]
    /\ pc = [t \in Threads |-> "idle"]
    /\ req = [t \in Threads |-> NoRequest]
    /\ found = [t \in Threads |-> 0]
    /\ ret = [t \in Threads |-> NoReturn]
    /\ claimed_by = <<>>
    /\ returned = <<>>

NextScenario ==
    \/ now < MaxTime /\ Tick /\ last' = TickReturn /\ UNCHANGED returned
    \/ /\ Calls < 3
       /\ \E pr \in ScenarioPriorities :
             /\ create_workflow_task("create_actor", "", "", pr)
             /\ last' = CreateOutcome(task_queue, "create_actor", "", "", pr, now).ret
             /\ returned' = Append(returned, last')
    \/ /\ Calls \in {3, 4}
       /\ claim_workflow_task("a1", NoId)
       /\ last' = ClaimOutcome(agents, task_queue, "a1", NoId, now).ret
       /\ returned' = Append(returned, last')
    \/ /\ Calls = 5
       /\ \E id \in 0..MaxTime :
             /\ complete_workflow_task(id, "{}", TRUE)
             /\ last' = CompleteOutcome(task_queue, workflow_history, id, "{}", TRUE, now).ret
             /\ returned' = Append(returned, last')
    \/ /\ Calls = 6
       /\ get_orchestration_status
       /\ last' = StatusReturn
       /\ returned' = Append(returned, StatusSnapshot(agents, knowledge_base,
                                                      task_queue, workflow_history))

SpecScenario == InitScenario /\ [][NextScenario]_vars

\* The task created by the k-th create.
Created(k) == CHOOSE i \in QueueIdx : task_queue[i].uid = k

\* The three creates were A (priority 1), B (priority 10), C (priority 5).
ScenarioABC ==
    /\ Calls >= 3
    /\ task_queue[Created(1)].priority = 1
    /\ task_queue[Created(2)].priority = 10
    /\ task_queue[Created(3)].priority = 5

\* C19: after the creates of A, B, C the list is [B, C, A]; the first claim
\* without task_id returns B and the second C; after a successful complete of B's
\* task_id there is exactly one history record and the snapshot reports
\* completed_tasks = 1, claimed_tasks = 1, pending_tasks = 1; also when the
\* creates fall within one millisecond.
C19_ScenarioABC ==
    ScenarioABC =>
       /\ LET l == ListTasks(task_queue, "", "") IN
             Len(l) = 3 /\ l[1].uid = 2 /\ l[2].uid = 3 /\ l[3].uid = 1
       /\ Calls >= 4 => returned[4].ok /\ returned[4].uid = 2
       /\ Calls >= 5 => returned[5].ok /\ returned[5].uid = 3
       /\ (Calls >= 6 /\ returned[6].task_id = task_queue[Created(2)].task_id) =>
             /\ returned[6].ok /\ returned[6].task_status = "completed"
             /\ task_queue[Created(2)].status = "completed"
             /\ task_queue[Created(3)].status = "claimed"
             /\ task_queue[Created(1)].status = "pending"
             /\ Len(workflow_history) = 1
             /\ Calls = 7 =>
                   /\ returned[7].completed_tasks = 1
                   /\ returned[7].claimed_tasks = 1
                   /\ returned[7].pending_tasks = 1

C19_Witness ==
    /\ ScenarioABC /\ Calls = 7
    /\ \A i \in QueueIdx : task_queue[i].task_id = 0
    /\ returned[6].ok /\ now = 1
    /\ returned[7].completed_tasks = 1 /\ returned[7].claimed_tasks = 1
    /\ returned[7].pending_tasks = 1

\* C20: a claim by an agent_id that the registry does not hold fails and changes
\* no store, whether or not a task could be claimed; a claim by an agent of the
\* registry succeeds exactly when a task can be claimed, whatever the agent's
\* status, active or inactive, and leaves that status as it is.
C20_ClaimNeedsRegistrationOnly ==
    [][last'.op = "claim" =>
          LET a == last'.agent_id IN
          IF a \notin DOMAIN agents
          THEN /\ ~last'.ok /\ last'.error = "NotRegistered"
               /\ UNCHANGED stores
          ELSE /\ last'.ok = (Unassigned(task_queue) # {})
               /\ last'.ok =>
                     /\ \E i \in Unassigned(task_queue) :
                           /\ task_queue'[i].status = "claimed"
                           /\ task_queue'[i].assigned_agent = a
                     /\ agents'[a].task_count = agents[a].task_count + 1
                     /\ agents'[a].status = agents[a].status]_vars

C20_Witness ==
    /\ last.op = "claim" /\ last.ok /\ last.agent_id = "a2"
    /\ agents["a2"].status = "inactive" /\ agents["a2"].task_count = 1
    /\ agents["a2"].last_active = 1
    /\ Len(task_queue) = 1 /\ task_queue[1].assigned_agent = "a2"
    /\ task_queue[1].status = "claimed"

-----------------------------------------------------------------------------
(* Claims with an explicit task_id *)

\* The pending tasks of the queue with this task_id.
PendingWithId(id) ==
    {i \in QueueIdx : task_queue[i].task_id = id /\ task_queue[i].status = "pending"}

\* C21: a claim with a task_id by a registered agent succeeds exactly when a task
\* with that id is pending, and claims such a task; otherwise (no such task, or it
\* is claimed, completed or failed) it returns the task-unavailable error and
\* changes no task, agent or history record.
C21_ClaimByIdNeedsPending ==
    [][(/\ last'.op = "claim" /\ last'.task_id # NoId
        /\ last'.agent_id \in DOMAIN agents) =>
          LET P == PendingWithId(last'.task_id) IN
             /\ last'.ok = (P # {})
             /\ P # {} => \E i \in P :
                   /\ last'.uid = task_queue[i].uid
                   /\ task_queue'[i].status = "claimed"
                   /\ task_queue'[i].assigned_agent = last'.agent_id
             /\ P = {} => /\ last'.error = "NoAvailableTask"
                          /\ UNCHANGED stores]_vars

C21_Witness ==
    /\ last.op = "claim" /\ ~last.ok /\ last.error = "NoAvailableTask"
    /\ last.agent_id = "a2" /\ last.task_id = 0
    /\ Len(task_queue) = 2
    /\ task_queue[1].task_id = 0 /\ task_queue[1].status = "failed"
    /\ task_queue[2].task_id = 0 /\ task_queue[2].status = "claimed"
    /\ task_queue[2].assigned_agent = "a1"

-----------------------------------------------------------------------------
(* SpecPayload: share, create and complete with well-formed and malformed    *)
(* payloads, each call recorded in `last`.                                   *)

NextPayload ==
    \/ now < MaxTime /\ Tick /\ last' = TickReturn /\ UNCHANGED returned
    \/ /\ Len(knowledge_base) < MaxAtoms
       /\ \E c \in Payloads, md \in Payloads :
             /\ share_knowledge("actor", c, "a1", md)
             /\ last' = ShareOutcome(knowledge_base, "actor", c, "a1", md, now).ret
             /\ UNCHANGED returned
    \/ /\ Len(task_queue) < MaxTasks
       /\ \E p \in Payloads :
             /\ create_workflow_task("create_actor", p, "", 0)
             /\ last' = CreateOutcome(task_queue, "create_actor", p, "", 0, now).ret
             /\ UNCHANGED returned
    \/ /\ Len(workflow_history) < MaxHistory
       /\ \E id \in 0..MaxTime, r \in Payloads, sc \in BOOLEAN :
             /\ complete_workflow_task(id, r, sc)
             /\ last' = CompleteOutcome(task_queue, workflow_history, id, r, sc, now).ret
             /\ UNCHANGED returned

SpecPayload == Init /\ [][NextPayload]_vars

\* The payload of Payloads that is not well-formed JSON.
Malformed(s) == s = "{bad"

\* C22: a share with malformed content or metadata, a create with malformed params
\* and a complete with a malformed result each return an error and leave the atoms,
\* the tasks and the history as they were.
C22_MalformedPayloadRejected ==
    [][/\ \A c \in Payloads, md \in Payloads :
             (/\ share_knowledge("actor", c, "a1", md)
              /\ last' = ShareOutcome(knowledge_base, "actor", c, "a1", md, now).ret
              /\ (Malformed(c) \/ Malformed(md))) =>
                ~last'.ok /\ UNCHANGED stores
       /\ \A p \in Payloads :
             (/\ create_workflow_task("create_actor", p, "", 0)
              /\ last' = CreateOutcome(task_queue, "create_actor", p, "", 0, now).ret
              /\ Malformed(p)) =>
                ~last'.ok /\ UNCHANGED stores
       /\ \A id \in 0..MaxTime, r \in Payloads, sc \in BOOLEAN :
             (/\ complete_workflow_task(id, r, sc)
              /\ last' = CompleteOutcome(task_queue, workflow_history, id, r, sc, now).ret
              /\ Malformed(r)) =>
                ~last'.ok /\ UNCHANGED stores]_vars

C22_Witness ==
    /\ last.op = "complete" /\ ~last.ok /\ last.error = "InvalidJSON"
    /\ Len(task_queue) = 2 /\ Len(knowledge_base) = 1 /\ Len(workflow_history) = 1
    /\ \E i \in QueueIdx : task_queue[i].task_id = last.task_id
                           /\ task_queue[i].status = "pending"

-----------------------------------------------------------------------------
(* Deregistration *)

\* C23: deregister_agent on a registered agent sets its status to inactive and keeps
\* the record with its task_count, capabilities, agent_type and created_at, so that
\* the registry has the same agents; on an unknown agent_id it returns the not-found
\* error and changes nothing.
C23_DeregisterKeepsRecord ==
    [][last'.op = "deregister" =>
         LET a == last'.agent_id IN
            IF a \in DOMAIN agents
            THEN /\ last'.ok
                 /\ DOMAIN agents' = DOMAIN agents
                 /\ agents'[a].status = "inactive"
                 /\ agents'[a].task_count = agents[a].task_count
                 /\ agents'[a].capabilities = agents[a].capabilities
                 /\ agents'[a].agent_type = agents[a].agent_type
                 /\ agents'[a].created_at = agents[a].created_at
                 /\ \A b \in DOMAIN agents \ {a} : agents'[b] = agents[b]
                 /\ UNCHANGED <<knowledge_base, task_queue, workflow_history>>
            ELSE /\ ~last'.ok /\ last'.error = "NotFound"
                 /\ UNCHANGED stores]_vars

C23_Witness ==
    /\ last.op = "deregister" /\ last.ok
    /\ DOMAIN agents = {"a1", "a2"}
    /\ agents[last.agent_id].status = "inactive"
    /\ agents[last.agent_id].task_count = 1
    /\ agents[last.agent_id].capabilities # <<>>
    /\ agents[last.agent_id].created_at < now

-----------------------------------------------------------------------------
(* SpecThreads: two callers, one call each of any tool.  A call is split at  *)
(* the points where another thread could run were it not for the lock:      *)
(* before `with lock`, and between the statements of the bodies that read   *)
(* and then write (claim, query, create), that write several stores (clear) *)
(* or that read several stores (status).  `returned` is the log of the      *)
(* calls in the order they were made.                                       *)

\* A call: the tool, its agent_id and task_id, its JSON argument (content, params or
\* result) and clear's confirm.
Request(op, agent_id, task_id, payload, confirm) ==
    [op |-> op, agent_id |-> agent_id, task_id |-> task_id, payload |-> payload,
     confirm |-> confirm]

\* The calls a thread makes: every tool, with the arguments that reach each of its
\* return statements.
Requests ==
    {Request("register", "a2", NoId, "", FALSE),
     Request("list_agents", "", NoId, "", FALSE),
     Request("deregister", "a1", NoId, "", FALSE),
     Request("query", "", NoId, "", FALSE),
     Request("claim", "a1", NoId, "", FALSE), Request("claim", "a2", NoId, "", FALSE),
     Request("list_tasks", "", NoId, "", FALSE),
     Request("status", "", NoId, "", FALSE),
     Request("clear", "", NoId, "", TRUE), Request("clear", "", NoId, "", FALSE)}
    \cup {Request("share", "a1", NoId, p, FALSE) : p \in Payloads}
    \cup {Request("create", "", NoId, p, FALSE) : p \in Payloads}
    \cup {Request("complete", "", 0, p, FALSE) : p \in Payloads}

\* The tools whose body is one statement over the stores, or reads only.
WholeBodyOps == {"register", "list_agents", "deregister", "share", "complete", "list_tasks"}

\* A returned value with the list it carries (agents, tasks, atoms, or the one
\* "orchestration" object).
WithPayload(r, x) == [r EXCEPT !.atoms = x]

\* The summary that list_active_agents builds of one agent.
AgentSummary(agent) ==
    [id |-> agent.agent_id, type |-> agent.agent_type, status |-> agent.status,
     capabilities |-> agent.capabilities, task_count |-> agent.task_count,
     created_at |-> agent.created_at, last_active |-> agent.last_active]

\* Mutant of ListAgents: only the agents whose status is active are listed.
ListAgentsActiveOnly(ags) ==
    [a \in {b \in DOMAIN ags : ags[b].status = "active"} |-> AgentSummary(ags[a])]

\* The loop of list_active_agents: one summary for every item of the registry (the
\* summaries are keyed by agent_id here; the dict's order is not modelled).
ListAgents(ags) == [a \in DOMAIN ags |-> AgentSummary(ags[a])]

StoresOf(ags, kb, queue, history) ==
    [agents |-> ags, knowledge_base |-> kb, task_queue |-> queue,
     workflow_history |-> history]

\* The whole call r on the stores s at time t, run by one caller alone: the stores
\* after it and what it returns.
Serial(s, r, t) ==
    CASE r.op = "register" ->
           LET o == RegisterOutcome(s.agents, r.agent_id, "cursor", "", t) IN
           [st |-> [s EXCEPT !.agents = o.agents], ret |-> o.ret]
      [] r.op = "list_agents" ->
           [st |-> s, ret |-> WithPayload(Return("list_agents", "", NoId, TRUE, "", 0),
                                          <<ListAgents(s.agents)>>)]
      [] r.op = "deregister" ->
           LET o == DeregisterOutcome(s.agents, r.agent_id) IN
           [st |-> [s EXCEPT !.agents = o.agents], ret |-> o.ret]
      [] r.op = "share" ->
           LET o == ShareOutcome(s.knowledge_base, "actor", r.payload, r.agent_id, "", t) IN
           [st |-> [s EXCEPT !.knowledge_base = o.knowledge_base], ret |-> o.ret]
      [] r.op = "query" ->
           LET o == QueryOutcome(s.knowledge_base, "", "", 10, t) IN
           [st |-> [s EXCEPT !.knowledge_base = o.knowledge_base], ret |-> o.ret]
      [] r.op = "create" ->
           LET o == CreateOutcome(s.task_queue, "create_actor", r.payload, "", 1, t) IN
           [st |-> [s EXCEPT !.task_queue = o.task_queue], ret |-> o.ret]
      [] r.op = "claim" ->
           LET o == ClaimOutcome(s.agents, s.task_queue, r.agent_id, r.task_id, t) IN
           [st |-> [s EXCEPT !.agents = o.agents, !.task_queue = o.task_queue],
            ret |-> o.ret]
      [] r.op = "complete" ->
           LET o == CompleteOutcome(s.task_queue, s.workflow_history, r.task_id,
                                    r.payload, TRUE, t) IN
           [st |-> [s EXCEPT !.task_queue = o.task_queue,
                             !.workflow_history = o.workflow_history],
            ret |-> o.ret]
      [] r.op = "list_tasks" ->
           [st |-> s, ret |-> WithPayload(Return("list_tasks", "", NoId, TRUE, "", 0),
                                          ListTasks(s.task_queue, "", ""))]
      [] r.op = "status" ->
           [st |-> s,
            ret |-> WithPayload(StatusReturn,
                                <<StatusSnapshot(s.agents, s.knowledge_base,
                                                 s.task_queue, s.workflow_history)>>)]
      [] r.op = "clear" ->
           [st |-> IF r.confirm THEN StoresOf(<<>>, <<>>, <<>>, <<>>) ELSE s,
            ret |-> ClearReturn(r.confirm)]

\* The call; clear's test of confirm (lines 600-604) returns before the lock.
Invoke(t, r) ==
    /\ pc[t] = "idle"
    /\ IF r.op = "clear" /\ ~r.confirm
       THEN /\ pc' = [pc EXCEPT ![t] = "returned"]
            /\ ret' = [ret EXCEPT ![t] = ClearReturn(FALSE)]
            /\ UNCHANGED req
       ELSE /\ pc' = [pc EXCEPT ![t] = "acquire"]
            /\ req' = [req EXCEPT ![t] = r]
            /\ UNCHANGED ret
    /\ UNCHANGED <<stores, now, last, lock, found, claimed_by>>

\* The first statement of the body of the tool.
FirstLabel(op) ==
    CASE op = "claim" -> "find"
      [] op = "query" -> "read"
      [] op = "create" -> "append"
      [] op = "clear" -> "clear_agents"
      [] op = "status" -> "count"
      [] OTHER -> "body"

\* with _orchestration_state["lock"]:
Enter(t) ==
    /\ pc[t] = "acquire"
    /\ LockFree(t)
    /\ lock' = LockAcquired(t)
    /\ pc' = [pc EXCEPT ![t] = FirstLabel(req[t].op)]
    /\ UNCHANGED <<stores, now, last, req, found, ret, claimed_by>>

\* Leaving the body with the value v.
Leave(t, v) ==
    /\ lock' = LockReleased(t)
    /\ pc' = [pc EXCEPT ![t] = "returned"]
    /\ req' = [req EXCEPT ![t] = NoRequest]
    /\ found' = [found EXCEPT ![t] = 0]
    /\ ret' = [ret EXCEPT ![t] = v]

\* register, list_active_agents, deregister, share, complete, list_workflow_tasks.
BodyStep(t) ==
    /\ pc[t] = "body"
    /\ LET o == Serial(StoresOf(agents, knowledge_base, task_queue, workflow_history),
                       req[t], now) IN
          /\ agents' = o.st.agents
          /\ knowledge_base' = o.st.knowledge_base
          /\ task_queue' = o.st.task_queue
          /\ workflow_history' = o.st.workflow_history
          /\ Leave(t, o.ret)
    /\ UNCHANGED <<now, last, claimed_by>>

\* query: the head of the loop (with no filter and a limit that is not reached, the
\* next atom is the one after those in results), the return when the loop ends, and
\* the read of atom.access_count by the `+= 1` of line 317.
QueryReadStep(t) ==
    /\ pc[t] = "read"
    /\ LET i == Len(ret[t].atoms) + 1 IN
          IF i > Len(knowledge_base)
          THEN Leave(t, WithPayload(Return("query", "", NoId, TRUE, "", 0), ret[t].atoms))
          ELSE /\ found' = [found EXCEPT ![t] = knowledge_base[i].access_count]
               /\ pc' = [pc EXCEPT ![t] = "write"]
               /\ UNCHANGED <<lock, req, ret>>
    /\ UNCHANGED <<stores, now, last, claimed_by>>

\* query: the write of the count read plus one, last_accessed, and results.append.
QueryWriteStep(t) ==
    /\ pc[t] = "write"
    /\ LET i == Len(ret[t].atoms) + 1 IN
          IF i > Len(knowledge_base)
          THEN UNCHANGED <<knowledge_base, ret>>
          ELSE /\ knowledge_base' =
                     [knowledge_base EXCEPT ![i].access_count = found[t] + 1,
                                            ![i].last_accessed = now]
               /\ ret' = [ret EXCEPT ![t].atoms = Append(@, knowledge_base[i].atom_id)]
    /\ pc' = [pc EXCEPT ![t] = "read"]
    /\ UNCHANGED <<agents, task_queue, workflow_history, now, last, lock, req, found,
                   claimed_by>>

\* create: lines 360-373, json.loads with its error return, the new task and
\* task_queue.append(task).
CreateAppendStep(t) ==
    /\ pc[t] = "append"
    /\ IF req[t].payload # "" /\ ~JsonValid(req[t].payload)
       THEN /\ Leave(t, Return("create", "", NoId, FALSE, "InvalidJSON", 0))
            /\ UNCHANGED task_queue
       ELSE /\ task_queue' = Append(task_queue,
                                    NewTask(Len(task_queue) + 1, now, "create_actor",
                                            JsonLoads(req[t].payload), "", 1, now))
            /\ found' = [found EXCEPT ![t] = Len(task_queue) + 1]
            /\ pc' = [pc EXCEPT ![t] = "sort"]
            /\ UNCHANGED <<lock, req, ret>>
    /\ UNCHANGED <<agents, knowledge_base, workflow_history, now, last, claimed_by>>

\* create: line 376, task_queue.sort, and the return.
CreateSortStep(t) ==
    /\ pc[t] = "sort"
    /\ task_queue' = SortByPriorityDesc(task_queue)
    /\ Leave(t, Return("create", "", now, TRUE, "", found[t]))
    /\ UNCHANGED <<agents, knowledge_base, workflow_history, now, last, claimed_by>>

\* clear: lines 607-610, one store at a time.
ClearStep(t) ==
    /\ pc[t] \in {"clear_agents", "clear_kb", "clear_queue", "clear_history"}
    /\ CASE pc[t] = "clear_agents" ->
              /\ agents' = <<>>
              /\ pc' = [pc EXCEPT ![t] = "clear_kb"]
              /\ UNCHANGED <<knowledge_base, task_queue, workflow_history, lock, req,
                             found, ret>>
         [] pc[t] = "clear_kb" ->
              /\ knowledge_base' = <<>>
              /\ pc' = [pc EXCEPT ![t] = "clear_queue"]
              /\ UNCHANGED <<agents, task_queue, workflow_history, lock, req, found, ret>>
         [] pc[t] = "clear_queue" ->
              /\ task_queue' = <<>>
              /\ pc' = [pc EXCEPT ![t] = "clear_history"]
              /\ UNCHANGED <<agents, knowledge_base, workflow_history, lock, req,
                             found, ret>>
         [] pc[t] = "clear_history" ->
              /\ workflow_history' = <<>>
              /\ Leave(t, ClearReturn(TRUE))
              /\ UNCHANGED <<agents, knowledge_base, task_queue>>
    /\ UNCHANGED <<now, last, claimed_by>>

\* status: lines 567-570, the four counts.
StatusCountStep(t) ==
    /\ pc[t] = "count"
    /\ ret' = [ret EXCEPT ![t].atoms =
                 <<[active_agents |->
                        Cardinality({a \in DOMAIN agents : agents[a].status = "active"}),
                    total_agents |-> None,
                    pending_tasks |-> CountStatus(task_queue, "pending"),
                    claimed_tasks |-> CountStatus(task_queue, "claimed"),
                    completed_tasks |-> Len(workflow_history),
                    knowledge_atoms |-> None]>>]
    /\ pc' = [pc EXCEPT ![t] = "report"]
    /\ UNCHANGED <<stores, now, last, lock, req, found, claimed_by>>

\* status: lines 572-581, the returned object with the two lengths read there.
StatusReportStep(t) ==
    /\ pc[t] = "report"
    /\ Leave(t, WithPayload(StatusReturn,
                  <<[ret[t].atoms[1] EXCEPT
                       !.total_agents = Cardinality(DOMAIN agents),
                       !.knowledge_atoms = Len(knowledge_base)]>>))
    /\ UNCHANGED <<stores, now, last, claimed_by>>

\* One registered agent, one atom, two pending tasks with no assignee.
StartStores ==
    StoresOf(RegisterOutcome(<<>>, "a1", "cursor", "", 0).agents,
             ShareOutcome(<<>>, "actor", "", "a1", "", 0).knowledge_base,
             CreateQueue(CreateQueue(<<>>, "create_actor", "", "", 0, 0),
                         "create_actor", "", "", 0, MaxTime),
             <<>>)

InitThreads ==
    /\ agents = StartStores.agents
    /\ knowledge_base = StartStores.knowledge_base
    /\ task_queue = StartStores.task_queue
    /\ workflow_history = StartStores.workflow_history
    /\ now = MaxTime
    /\ last = NoReturn
    /\ lock = [owner |-> "", count |-> 0]
    /\ pc = [t \in Threads |-> "idle"]
    /\ req = [t \in Threads |-> NoRequest]
    /\ found = [t \in Threads |-> 0]
    /\ ret = [t \in Threads |-> NoReturn]
    /\ claimed_by = [u \in 1..(Len(StartStores.task_queue) + Cardinality(Threads)) |-> 0]
    /\ returned = <<>>

\* The steps of thread t after its call was made.
ThreadStep(t) ==
    \/ Enter(t)
    \/ BodyStep(t)
    \/ ClaimFindStep(t, "returned") /\ ret' = [ret EXCEPT ![t] = FindReturn(t)]
    \/ ClaimSetStep(t, "returned") /\ ret' = [ret EXCEPT ![t] = SetReturn(t)]
    \/ QueryReadStep(t)
    \/ QueryWriteStep(t)
    \/ CreateAppendStep(t)
    \/ CreateSortStep(t)
    \/ ClearStep(t)
    \/ StatusCountStep(t)
    \/ StatusReportStep(t)

NextThreads ==
    \E t \in Threads :
       \/ \E r \in Requests :
             Invoke(t, r) /\ returned' = Append(returned, [t |-> t, r |-> r])
       \/ ThreadStep(t) /\ UNCHANGED returned

SpecThreads == InitThreads /\ [][NextThreads]_vars


\* Thread t is between entering `with lock` and its return.
InBody(t) == pc[t] \notin {"idle", "acquire", "returned"}

\* No thread is inside a body.
Quiescent == \A t \in Threads : ~InBody(t)

\* The calls of the log that have returned.
DoneCalls == SelectSeq(returned, LAMBDA e : pc[e.t] = "returned")

RECURSIVE RunSerial(_, _, _)
\* The calls run one after the other from the stores s: the stores after the last
\* one and what each caller was returned.
RunSerial(s, calls, rets) ==
    IF calls = <<>> THEN [st |-> s, ret |-> rets]
    ELSE LET o == Serial(s, Head(calls).r, now) IN
         RunSerial(o.st, Tail(calls), [rets EXCEPT ![Head(calls).t] = o.ret])

\* Some order of the calls that have returned gives, run serially from the initial
\* stores, the stores of this state and the value each call returned.
SerialEquivalent ==
    \E p \in Permutations(1..Len(DoneCalls)) :
       LET o == RunSerial(StartStores, [i \in 1..Len(DoneCalls) |-> DoneCalls[p[i]]],
                          [t \in Threads |-> NoReturn])
       IN /\ o.st = StoresOf(agents, knowledge_base, task_queue, workflow_history)
          /\ \A t \in Threads : pc[t] = "returned" => ret[t] = o.ret[t]

\* C24: every step of a tool's body, read or write, is taken by the thread that holds
\* the lock; two threads are never inside bodies at once; and whenever no thread is
\* inside a body, the stores and the values returned are those of some serial
\* execution of the calls that have returned.
C24_LockSerializesCalls ==
    /\ [](/\ \A t1 \in Threads, t2 \in Threads : InBody(t1) /\ InBody(t2) => t1 = t2
          /\ \A t \in Threads : InBody(t) => lock.owner = t
          /\ Quiescent => SerialEquivalent)
    /\ [][\A t \in Threads :
             (pc'[t] # pc[t] \/ stores' # stores) /\ InBody(t) => lock.owner = t]_vars

C24_Witness ==
    /\ \A t \in Threads : pc[t] = "returned"
    /\ Len(returned) = 2
    /\ returned[1].r.op = "status"
    /\ returned[2].r = Request("clear", "", NoId, "", TRUE)
    /\ ret[returned[1].t].atoms[1].total_agents = 0
    /\ ret[returned[1].t].atoms[1].active_agents = 0
    /\ agents = <<>> /\ task_queue = <<>>


\* Every call that has returned was a call of this tool and returned success.
AllDone(op) ==
    \A i \in 1..Len(DoneCalls) : DoneCalls[i].r.op = op /\ ret[DoneCalls[i].t].ok

-----------------------------------------------------------------------------
(* SpecThreadsFair: SpecThreads with every thread that can take a step       *)
(* eventually taking one (the scheduler does not starve a runnable thread). *)

SpecThreadsFair ==
    /\ InitThreads
    /\ [][NextThreads]_vars
    /\ \A t \in Threads : WF_vars(ThreadStep(t) /\ UNCHANGED returned)

\* C26: every call that was made returns; the lock is held exactly while some thread
\* is inside a body, so that every return, success or error, has released it; and a
\* thread that waits for the lock gets it.
C26_EveryCallReturns ==
    /\ \A t \in Threads : (pc[t] = "acquire") ~> (pc[t] = "returned")
    /\ [](\A t \in Threads : lock.owner = t <=> InBody(t))
    /\ [](lock.owner = "" <=> lock.count = 0)

C26_Witness ==
    /\ \A t \in Threads : pc[t] = "returned"
    /\ lock = [owner |-> "", count |-> 0]
    /\ Len(returned) = 2 /\ returned[1].t = "t1"
    /\ returned[1].r.op = "complete" /\ returned[2].r.op = "clear"
    /\ ~ret["t1"].ok /\ ret["t1"].error = "NotFound"
    /\ ret["t2"].ok

-----------------------------------------------------------------------------
(* A confirmed clear among concurrent callers *)

\* Thread c has emptied some of the four stores and not yet the others.
MidClear(c) == pc[c] \in {"clear_kb", "clear_queue", "clear_history"}

\* The call that thread t made.
CallOf(t) == returned[CHOOSE i \in 1..Len(returned) : returned[i].t = t].r

\* C27: while a confirmed clear has emptied some stores and not the others, no other
\* thread is inside a body; and a call that ran alongside a confirmed clear returns
\* what it returns either on the stores as they were before the clear or on the four
\* empty stores.
C27_ClearAllOrNothing ==
    \A c \in Threads : \A t \in Threads \ {c} :
       /\ MidClear(c) => ~InBody(t)
       /\ (/\ pc[c] = "returned" /\ pc[t] = "returned"
           /\ CallOf(c) = Request("clear", "", NoId, "", TRUE)) =>
             ret[t] \in {Serial(StartStores, CallOf(t), now).ret,
                         Serial(StoresOf(<<>>, <<>>, <<>>, <<>>), CallOf(t), now).ret}

C27_Witness ==
    /\ pc["t1"] = "clear_queue" /\ pc["t2"] = "acquire"
    /\ req["t2"].op = "status"
    /\ agents = <<>> /\ knowledge_base = <<>>
    /\ Len(task_queue) = 2 /\ lock.owner = "t1"

-----------------------------------------------------------------------------
(* What the operations leave alone between confirmed clears *)

\* C28: a step that is not a confirmed clear keeps every stored atom in the store, the
\* same object with the same atom_type, content, source_agent, metadata and
\* created_at; only a query changes a stored atom at all.
C28_AtomsImmutable ==
    [][last'.op # "clear" =>
         \A i \in AtomIdx :
            /\ i <= Len(knowledge_base')
            /\ knowledge_base'[i].uid = knowledge_base[i].uid
            /\ knowledge_base'[i].atom_id = knowledge_base[i].atom_id
            /\ knowledge_base'[i].atom_type = knowledge_base[i].atom_type
            /\ knowledge_base'[i].content = knowledge_base[i].content
            /\ knowledge_base'[i].source_agent = knowledge_base[i].source_agent
            /\ knowledge_base'[i].metadata = knowledge_base[i].metadata
            /\ knowledge_base'[i].created_at = knowledge_base[i].created_at
            /\ last'.op # "query" => knowledge_base'[i] = knowledge_base[i]]_vars


\* C29: a step that is not a confirmed clear keeps every task in the queue (at some
\* position) with its task_id, task_type, params, priority and created_at, so that
\* the queue never gets shorter.
C29_TasksOnlyGrow ==
    [][~clear_orchestration_state(TRUE) =>
         /\ Len(task_queue') >= Len(task_queue)
         /\ \A i \in QueueIdx : \E j \in 1..Len(task_queue') :
               /\ task_queue'[j].uid = task_queue[i].uid
               /\ task_queue'[j].task_id = task_queue[i].task_id
               /\ task_queue'[j].task_type = task_queue[i].task_type
               /\ task_queue'[j].params = task_queue[i].params
               /\ task_queue'[j].priority = task_queue[i].priority
               /\ task_queue'[j].created_at = task_queue[i].created_at]_vars

C29_Witness ==
    /\ Len(task_queue) = 2
    /\ task_queue[1].uid = 2 /\ task_queue[1].status = "claimed"
    /\ task_queue[2].uid = 1 /\ task_queue[2].status = "completed"
    /\ task_queue[2].assigned_agent = "a1"
    /\ "a1" \in DOMAIN agents /\ agents["a1"].status = "inactive"
    /\ Len(workflow_history) = 1


\* C30: a step that is not a confirmed clear keeps every history record at its
\* position; the history changes only by a complete that returns success, which
\* adds one record at the end.
C30_HistoryAppendOnly ==
    [][~clear_orchestration_state(TRUE) =>
         /\ Len(workflow_history') >= Len(workflow_history)
         /\ SubSeq(workflow_history', 1, Len(workflow_history)) = workflow_history
         /\ workflow_history' # workflow_history =>
               /\ Len(workflow_history') = Len(workflow_history) + 1
               /\ \E id \in 0..MaxTime, r \in Payloads, sc \in BOOLEAN :
                     /\ complete_workflow_task(id, r, sc)
                     /\ CompleteOutcome(task_queue, workflow_history, id, r, sc, now).ret.ok]_vars

C30_Witness ==
    /\ Len(workflow_history) = 2
    /\ workflow_history[1].task_id = workflow_history[2].task_id
    /\ workflow_history[1].status = "completed" /\ workflow_history[1].agent = "a1"
    /\ workflow_history[2].status = "failed"
    /\ workflow_history[1].completed_at < workflow_history[2].completed_at

-----------------------------------------------------------------------------
(* Registration of a new agent *)

\* C31: register_agent returns success in every state for every agent_id; for an
\* agent_id the registry does not hold, the registry afterwards holds that agent,
\* active, with task_count 0, the agent_type supplied and the capabilities supplied
\* (the comma-separated names), and has exactly one agent more.
C31_RegisterNewAgent ==
    /\ [](\A a \in AgentIds, inp \in RegInputs :
             RegisterOutcome(agents, a, inp[1], inp[2], now).ret.ok)
    /\ [][\A a \in AgentIds, inp \in RegInputs :
             (/\ register_agent(a, inp[1], inp[2])
              /\ last' = RegisterOutcome(agents, a, inp[1], inp[2], now).ret
              /\ a \notin DOMAIN agents) =>
                /\ last'.ok
                /\ DOMAIN agents' = DOMAIN agents \cup {a}
                /\ Cardinality(DOMAIN agents') = Cardinality(DOMAIN agents) + 1
                /\ agents'[a].agent_id = a
                /\ agents'[a].status = "active"
                /\ agents'[a].task_count = 0
                /\ agents'[a].agent_type = inp[1]
                /\ agents'[a].capabilities =
                      (IF inp[2] = "" THEN <<>> ELSE <<"bp", "ui">>)
                /\ \A b \in DOMAIN agents : agents'[b] = agents[b]]_vars

C31_Witness ==
    /\ last.op = "register" /\ last.ok /\ last.agent_id = "a2"
    /\ DOMAIN agents = {"a1", "a2"}
    /\ agents["a2"].created_at = now /\ agents["a2"].created_at > agents["a1"].created_at
    /\ agents["a2"].agent_type = "windsurf"
    /\ agents["a2"].capabilities = <<"bp", "ui">>
    /\ agents["a2"].task_count = 0 /\ agents["a2"].status = "active"
    /\ agents["a1"].task_count = 1 /\ agents["a1"].status = "inactive"

-----------------------------------------------------------------------------
(* SpecAgents: the registry with list_active_agents; `returned` is what the  *)
(* last list_active_agents call returned, and is emptied by any other call. *)

\* len(agents) and the list, lines 195-199.
ListAgentsReturn(ags) ==
    [total_agents |-> Cardinality(DOMAIN ListAgents(ags)), agents |-> ListAgents(ags)]

list_active_agents ==
    UNCHANGED <<stores, now, threadVars>>

NextAgents ==
    \/ now < MaxTime /\ Tick /\ last' = TickReturn /\ returned' = <<>>
    \/ \E a \in AgentIds, inp \in RegInputs :
          /\ register_agent(a, inp[1], inp[2])
          /\ last' = RegisterOutcome(agents, a, inp[1], inp[2], now).ret
          /\ returned' = <<>>
    \/ \E a \in AgentIds :
          /\ deregister_agent(a)
          /\ last' = DeregisterOutcome(agents, a).ret
          /\ returned' = <<>>
    \/ /\ task_queue = <<>>
       /\ create_workflow_task("create_actor", "", "", 0)
       /\ last' = CreateOutcome(task_queue, "create_actor", "", "", 0, now).ret
       /\ returned' = <<>>
    \/ \E a \in AgentIds :
          /\ claim_workflow_task(a, NoId)
          /\ last' = ClaimOutcome(agents, task_queue, a, NoId, now).ret
          /\ returned' = <<>>
    \/ /\ list_active_agents
       /\ last' = Return("list_agents", "", NoId, TRUE, "", 0)
       /\ returned' = ListAgentsReturn(agents)

SpecAgents == Init /\ [][NextAgents]_vars

-----------------------------------------------------------------------------
(* The task that create_workflow_task adds *)

\* C33: the task a create adds is pending, with no started_at, completed_at or
\* result, and with the priority and the assigned agent given to create; every task
\* that was in the queue is still there as it was, status and assignment included.
C33_CreatedTaskStartsPending ==
    [][\A ty \in TaskTypes, a \in AssignArgs, pr \in Priorities :
          (/\ create_workflow_task(ty, "", a, pr)
           /\ task_queue' # task_queue) =>
             /\ Len(task_queue') = Len(task_queue) + 1
             /\ \E j \in 1..Len(task_queue') :
                   /\ \A i \in QueueIdx : task_queue[i].uid # task_queue'[j].uid
                   /\ task_queue'[j].status = "pending"
                   /\ task_queue'[j].started_at = None
                   /\ task_queue'[j].completed_at = None
                   /\ task_queue'[j].result = "None"
                   /\ task_queue'[j].priority = pr
                   /\ task_queue'[j].assigned_agent = a
                   /\ task_queue'[j].task_type = ty
             /\ \A i \in QueueIdx : \E j \in 1..Len(task_queue') :
                   task_queue'[j] = task_queue[i]]_vars

C33_Witness ==
    /\ Len(task_queue) = 3
    /\ task_queue[1].uid = 3 /\ task_queue[1].priority = 1
    /\ task_queue[1].status = "pending" /\ task_queue[1].assigned_agent = "a1"
    /\ task_queue[1].started_at = None /\ task_queue[1].created_at = now
    /\ task_queue[2].status = "claimed" /\ task_queue[2].priority = 0
    /\ task_queue[3].status = "completed" /\ task_queue[3].assigned_agent = ""

-----------------------------------------------------------------------------
(* SpecReentrant: SpecThreads with callers that, as test_lock_is_reentrant    *)
(* does, enter `with _orchestration_state["lock"]` blocks of their own, nested *)
(* up to MaxDepth, and may call a tool inside them.  returned[t] counts the   *)
(* blocks thread t has entered and not left.                                  *)

MaxDepth == 2

\* The caller enters a `with lock` block of its own.
OuterEnter(t) ==
    /\ pc[t] = "idle"
    /\ returned[t] < MaxDepth
    /\ LockFree(t)
    /\ lock' = LockAcquired(t)
    /\ returned' = [returned EXCEPT ![t] = @ + 1]
    /\ UNCHANGED <<stores, now, last, pc, req, found, ret, claimed_by>>

\* The caller leaves its innermost `with lock` block.
OuterLeave(t) ==
    /\ pc[t] \in {"idle", "returned"}
    /\ returned[t] > 0
    /\ lock' = LockReleased(t)
    /\ returned' = [returned EXCEPT ![t] = @ - 1]
    /\ UNCHANGED <<stores, now, last, pc, req, found, ret, claimed_by>>

InitReentrant ==
    /\ agents = StartStores.agents
    /\ knowledge_base = StartStores.knowledge_base
    /\ task_queue = StartStores.task_queue
    /\ workflow_history = StartStores.workflow_history
    /\ now = MaxTime
    /\ last = NoReturn
    /\ lock = [owner |-> "", count |-> 0]
    /\ pc = [t \in Threads |-> "idle"]
    /\ req = [t \in Threads |-> NoRequest]
    /\ found = [t \in Threads |-> 0]
    /\ ret = [t \in Threads |-> NoReturn]
    /\ claimed_by = [u \in 1..(Len(StartStores.task_queue) + Cardinality(Threads)) |-> 0]
    /\ returned = [t \in Threads |-> 0]

NextReentrant ==
    \E t \in Threads :
       \/ OuterEnter(t)
       \/ OuterLeave(t)
       \/ \E r \in Requests : Invoke(t, r) /\ UNCHANGED returned
       \/ ThreadStep(t) /\ UNCHANGED returned

SpecReentrant == InitReentrant /\ [][NextReentrant]_vars

\* The `with lock` blocks thread t is inside: its own and a tool's body.
Held(t) == returned[t] + (IF InBody(t) THEN 1 ELSE 0)

\* C34: a thread that holds the lock can enter another `with lock` block, its own or
\* a tool's, without waiting; the lock counts the blocks its owner is inside, and
\* it is the owner's until the owner has left as many blocks as it entered: until
\* then no other thread can enter one.
C34_LockIsReentrant ==
    /\ \A t \in Threads : lock.owner = t <=> Held(t) > 0
    /\ lock.owner # "" => lock.count = Held(lock.owner)
    /\ lock.owner = "" => lock.count = 0
    /\ \A t \in Threads :
          lock.owner = t =>
             /\ (pc[t] = "idle" /\ returned[t] < MaxDepth) => ENABLED OuterEnter(t)
             /\ pc[t] = "acquire" => ENABLED Enter(t)
             /\ \A u \in Threads \ {t} : ~ENABLED OuterEnter(u) /\ ~ENABLED Enter(u)

C34_Witness ==
    /\ lock = [owner |-> "t1", count |-> 3]
    /\ returned["t1"] = 2 /\ pc["t1"] = "clear_queue"
    /\ pc["t2"] = "acquire" /\ returned["t2"] = 0

-----------------------------------------------------------------------------
(* task_count and the tasks an agent has claimed *)

\* The tasks of the queue that agent a has claimed: assigned to a, started_at set.
ClaimedBy(a) ==
    {i \in QueueIdx : task_queue[i].assigned_agent = a /\ task_queue[i].started_at # None}

\* C35: every registered agent's task_count is the number of tasks of the queue
\* that are assigned to it with started_at set; while the agent is registered its
\* task_count never decreases, and it changes only by a successful claim by that
\* agent, which adds one.
C35_TaskCountCountsClaims ==
    /\ [](\A a \in DOMAIN agents : agents[a].task_count = Cardinality(ClaimedBy(a)))
    /\ [][\A a \in DOMAIN agents \cap DOMAIN agents' :
             /\ agents'[a].task_count >= agents[a].task_count
             /\ agents'[a].task_count # agents[a].task_count =>
                   /\ agents'[a].task_count = agents[a].task_count + 1
                   /\ \E id \in TaskIdArgs :
                         /\ claim_workflow_task(a, id)
                         /\ ClaimOutcome(agents, task_queue, a, id, now).ret.ok]_vars

C35_Witness ==
    /\ DOMAIN agents = {"a1", "a2"}
    /\ agents["a1"].task_count = 1 /\ agents["a1"].status = "inactive"
    /\ agents["a2"].task_count = 1 /\ agents["a2"].last_active > agents["a2"].created_at
    /\ Len(task_queue) = 2
    /\ task_queue[1].assigned_agent = "a1" /\ task_queue[1].status = "completed"
    /\ task_queue[2].assigned_agent = "a2" /\ task_queue[2].status = "claimed"

-----------------------------------------------------------------------------
(* SpecAssigned: the claims of SpecFrame on queues whose tasks were all       *)
(* created with assigned_agent a1.                                             *)

InitAssigned ==
    /\ InitFrame
    /\ task_queue # <<>>
    /\ \A i \in 1..Len(task_queue) : task_queue[i].assigned_agent = "a1"

SpecAssigned == InitAssigned /\ [][NextClaim]_vars

\* C36: a claim with a task_id by a registered agent succeeds whenever a task with
\* that id is pending, whoever it was created for; the task it returns becomes the
\* caller's; and when the id names one task only, pending and created for another
\* agent, that task is claimed and its assigned_agent becomes the caller.
C36_ExplicitClaimIgnoresAssignee ==
    [][(/\ last'.op = "claim" /\ last'.task_id # NoId
        /\ last'.agent_id \in DOMAIN agents) =>
          LET x == last'.agent_id
              P == PendingWithId(last'.task_id)
              S == {i \in QueueIdx : task_queue[i].task_id = last'.task_id}
          IN /\ P # {} => last'.ok
             /\ last'.ok => \E i \in P : /\ last'.uid = task_queue[i].uid
                                        /\ task_queue'[i].assigned_agent = x
                                        /\ task_queue'[i].status = "claimed"
             /\ \A i \in P :
                   (S = {i} /\ task_queue[i].assigned_agent \notin {"", x}) =>
                      /\ last'.ok /\ last'.uid = task_queue[i].uid
                      /\ task_queue'[i].assigned_agent = x
                      /\ task_queue'[i].status = "claimed"]_vars

C36_Witness ==
    /\ last.op = "claim" /\ last.ok /\ last.agent_id = "a2" /\ last.task_id # NoId
    /\ \E i \in QueueIdx :
          /\ task_queue[i].uid = last.uid
          /\ task_queue[i].assigned_agent = "a2" /\ task_queue[i].status = "claimed"
          /\ \A j \in QueueIdx \ {i} :
                /\ task_queue[j].task_id # last.task_id
                /\ task_queue[j].assigned_agent = "a1"
                /\ task_queue[j].status = "pending"
    /\ Len(task_queue) = 2
    /\ agents["a2"].task_count = 1 /\ agents["a1"].task_count = 0

-----------------------------------------------------------------------------
(* SpecHistory: creates, claims, completes and confirmed clears by one agent; *)
(* returned[u] counts the successful completes of the task created u-th.     *)

NextHistory ==
    \/ now < MaxTime /\ Tick /\ UNCHANGED <<last, returned>>
    \/ /\ "a1" \notin DOMAIN agents
       /\ register_agent("a1", "cursor", "")
       /\ UNCHANGED <<last, returned>>
    \/ /\ Len(task_queue) < MaxTasks
       /\ \E pr \in Priorities :
             /\ create_workflow_task("create_actor", "", "", pr)
             /\ returned' = Append(returned, 0)
             /\ UNCHANGED last
    \/ \E id \in TaskIdArgs :
          /\ claim_workflow_task("a1", id)
          /\ UNCHANGED <<last, returned>>
    \/ /\ Len(workflow_history) < MaxHistory
       /\ \E id \in 0..MaxTime, inp \in CompleteInputs :
             LET o == CompleteOutcome(task_queue, workflow_history, id,
                                      inp[1], inp[2], now) IN
                /\ complete_workflow_task(id, inp[1], inp[2])
                /\ returned' = IF o.ret.ok THEN [returned EXCEPT ![o.ret.uid] = @ + 1]
                               ELSE returned
                /\ UNCHANGED last
    \/ /\ clear_orchestration_state(TRUE)
       /\ returned' = <<>>
       /\ UNCHANGED last

SpecHistory == Init /\ [][NextHistory]_vars

\* C37: every history record's task_id is the task_id of a task of the queue that
\* is completed or failed; the tasks that are completed or failed are at most as
\* many as the history records, and exactly as many when no task has been
\* completed more than once.
C37_HistoryMatchesTerminalTasks ==
    /\ \A k \in 1..Len(workflow_history) : \E i \in QueueIdx :
          /\ task_queue[i].task_id = workflow_history[k].task_id
          /\ task_queue[i].status \in {"completed", "failed"}
    /\ Cardinality(TerminalTasks) <= Len(workflow_history)
    /\ (\A u \in 1..Len(returned) : returned[u] <= 1) =>
          Cardinality(TerminalTasks) = Len(workflow_history)

C37_Witness ==
    /\ Len(task_queue) = 2 /\ Len(workflow_history) = 2
    /\ task_queue[1].task_id = task_queue[2].task_id
    /\ task_queue[1].uid = 2
    /\ task_queue[1].status = "failed" /\ task_queue[2].status = "completed"
    /\ returned = <<1, 1>>

-----------------------------------------------------------------------------
(* SpecAgentStatus: every tool called by two agents, each call logged.        *)

list_workflow_tasks ==
    UNCHANGED <<stores, now, threadVars>>

NextAgentStatus ==
    \/ NextRegistry
    \/ /\ \A i \in AtomIdx : knowledge_base[i].access_count < MaxAccess
       /\ query_knowledge("actor", "", 10)
       /\ last' = QueryOutcome(knowledge_base, "actor", "", 10, now).ret
       /\ UNCHANGED returned
    \/ /\ list_active_agents
       /\ last' = Return("list_agents", "", NoId, TRUE, "", 0)
       /\ UNCHANGED returned
    \/ /\ list_workflow_tasks
       /\ last' = Return("list_tasks", "", NoId, TRUE, "", 0)
       /\ UNCHANGED returned
    \/ /\ get_orchestration_status
       /\ last' = StatusReturn
       /\ UNCHANGED returned

SpecAgentStatus == Init /\ [][NextAgentStatus]_vars

\* C38: the status of an agent of the registry changes only in a register_agent
\* call for it (to active) or a deregister_agent call for it (to inactive); claim,
\* complete, create, share, query, list and status calls leave every agent's status
\* and the set of agents as they were, and a successful claim by an inactive agent
\* leaves it inactive with the claimed task assigned to it.
C38_StatusOnlyByRegisterDeregister ==
    [][/\ \A a \in DOMAIN agents \cap DOMAIN agents' :
             agents'[a].status # agents[a].status =>
                \/ /\ last'.op = "register" /\ last'.agent_id = a
                   /\ agents'[a].status = "active"
                \/ /\ last'.op = "deregister" /\ last'.agent_id = a
                   /\ agents'[a].status = "inactive"
       /\ last'.op \in {"claim", "complete", "create", "share", "query",
                        "list_agents", "list_tasks", "status"} =>
             /\ DOMAIN agents' = DOMAIN agents
             /\ \A a \in DOMAIN agents : agents'[a].status = agents[a].status
       /\ \A a \in DOMAIN agents :
             (/\ last'.op = "claim" /\ last'.agent_id = a /\ last'.ok
              /\ agents[a].status = "inactive") =>
                /\ agents'[a].status = "inactive"
                /\ agents'[a].task_count = agents[a].task_count + 1
                /\ \E i \in 1..Len(task_queue') :
                      /\ task_queue'[i].uid = last'.uid
                      /\ task_queue'[i].status = "claimed"
                      /\ task_queue'[i].assigned_agent = a]_vars

C38_Witness ==
    /\ last.op = "claim" /\ last.ok /\ last.agent_id = "a2"
    /\ "a2" \in DOMAIN agents /\ agents["a2"].status = "inactive"
    /\ agents["a2"].task_count = 1
    /\ "a1" \in DOMAIN agents /\ agents["a1"].status = "active"
    /\ Len(task_queue) = 1 /\ task_queue[1].status = "claimed"
    /\ task_queue[1].assigned_agent = "a2"

-----------------------------------------------------------------------------
(* SpecAutoClaim: claims, completes and deregistrations, with no create and  *)
(* no clear, on the queues that creates have built; `returned` lists the     *)
(* priorities of the tasks that the successful claims without task_id        *)
(* returned, in the order of the calls.                                      *)

NextAutoClaim ==
    \/ now < MaxTime /\ Tick /\ last' = TickReturn /\ UNCHANGED returned
    \/ \E a \in AgentIds, id \in TaskIdArgs :
          LET o == ClaimOutcome(agents, task_queue, a, id, now) IN
             /\ claim_workflow_task(a, id)
             /\ last' = o.ret
             /\ returned' =
                   IF id = NoId /\ o.ret.ok
                   THEN Append(returned,
                               task_queue[FindAuto(task_queue)].priority)
                   ELSE returned
    \/ /\ workflow_history = <<>>
       /\ \E id \in 0..MaxTime :
             /\ complete_workflow_task(id, "", TRUE)
             /\ last' = CompleteOutcome(task_queue, workflow_history, id, "", TRUE, now).ret
             /\ UNCHANGED returned
    \/ /\ deregister_agent("a1")
       /\ last' = DeregisterOutcome(agents, "a1").ret
       /\ UNCHANGED returned

SpecAutoClaim == InitConc /\ [][NextAutoClaim]_vars

\* The tasks a claim without task_id can take.
AutoClaimable ==
    {i \in QueueIdx : task_queue[i].status = "pending" /\ task_queue[i].assigned_agent = ""}

\* C39: with no create and no clear between them, the tasks returned by the
\* successive successful claims without task_id have non-increasing priority; a
\* claim without task_id by an agent of the registry succeeds exactly when a
\* pending unassigned task remains, and once none remains none appears and every
\* claim without task_id fails.
C39_AutoClaimsDescendUntilExhausted ==
    /\ [](\A k \in 1..(Len(returned) - 1) : returned[k] >= returned[k + 1])
    /\ [][/\ (/\ last'.op = "claim" /\ last'.task_id = NoId
              /\ last'.agent_id \in DOMAIN agents) =>
                (last'.ok <=> AutoClaimable # {})
          /\ AutoClaimable = {} =>
                /\ {i \in 1..Len(task_queue') :
                      /\ task_queue'[i].status = "pending"
                      /\ task_queue'[i].assigned_agent = ""} = {}
                /\ (last'.op = "claim" /\ last'.task_id = NoId) => ~last'.ok]_vars

C39_Witness ==
    /\ returned = <<1, 0>>
    /\ last.op = "claim" /\ last.task_id = NoId /\ ~last.ok
    /\ last.agent_id = "a2" /\ "a2" \in DOMAIN agents
    /\ Len(task_queue) = 2
    /\ task_queue[1].assigned_agent = "a1" /\ task_queue[2].assigned_agent = "a2"

====
